---- MODULE Spec2Model ----
(***************************************************************************)
(* Model of the deterministic pricing code of price-compare:               *)
(*   utils.parse_price                 (src/be/utils.py)                   *)
(*   analysis.calculate_discount_fallback (src/be/analysis.py)             *)
(* and of the code around it: the scraping pipeline (src/be/main.py) and   *)
(* the POST /analyze-prices handler (src/be/api.py, src/be/ai.py).         *)
(* Text is a sequence of one-character strings, so that the regular        *)
(* expressions and the substring test of the code are computed on the      *)
(* characters.  A float is an integer number of 1/10000 rupee.             *)
(***************************************************************************)
EXTENDS Integers, Sequences, FiniteSets, TLC

VARIABLES
    products,           \* calculate_discount_fallback: the products argument
    user_credit_cards,  \* calculate_discount_fallback: the user_credit_cards argument
    idx,                \* position of the for loop over products
    results,            \* the results list
    pc,                 \* position of the function under way
    error,              \* the exception that left calculate_discount_fallback
    price_str,          \* parse_price: its argument
    parsed,             \* parse_price: its return value
    calls,              \* the number of the call of calculate_discount_fallback under way
    first_outcome,      \* how the first call ended and what it returned
    given_products,     \* the products as they were handed to the first call
    max_products_per_platform,  \* scrape_product_listings: its argument
    max_detail_pages,   \* run_product_pipeline: its argument
    platform_idx,       \* position of the loop over platforms
    crawled,            \* what crawler.arun gave for each platform
    item_idx,           \* position of the loop over raw_data
    count,              \* listings added for the platform under way
    listings,           \* the listings list
    processed_urls,     \* the processed_urls set
    attempts,           \* number of crawler.arun calls made for each platform
    detailed_products,  \* run_product_pipeline: the detailed_products list
    fetches,            \* number of scrape_product_details calls made for each listing
    request,            \* POST /analyze-prices: the body of the request
    validated,          \* the PriceAnalysisRequest made of it
    request_id,         \* analyze_prices: request_id
    engine_args,        \* the arguments analyze_product_prices was called with
    scraper_results,    \* analyze_product_prices: scraper_results
    model_reply,        \* calculate_effective_prices: response.text
    result,             \* analyze_prices: result
    response,           \* how analyze_prices ended: its return value or the exception
    crew_result,        \* analyze_discounts_with_crewai: what crew.kickoff() gave
    tool_url,           \* FirecrawlScrapingTool._run: url
    extract_schema,     \* FirecrawlScrapingTool._run: extract_schema
    client,             \* FirecrawlScrapingTool: whether self.client is set
    firecrawl_result,   \* what self.client.scrape_url did
    http_result,        \* _fallback_scrape: what requests.get and raise_for_status did
    fallback_calls,     \* number of calls of _fallback_scrape
    tool_output,        \* FirecrawlScrapingTool._run: the string returned
    platform_name,      \* fetch_product_listings: platform_name, as its place in Platforms
    max_products,       \* fetch_product_listings: max_products
    raw_data_str,       \* fetch_product_listings: raw_data_str
    parsed_data         \* fetch_product_listings: parsed_data

call_vars == <<calls, first_outcome, given_products>>

scrape_vars ==
    <<max_products_per_platform, max_detail_pages, platform_idx, crawled, item_idx, count,
      listings, processed_urls, attempts, detailed_products, fetches>>

api_vars ==
    <<request, validated, request_id, engine_args, scraper_results, model_reply, result,
      response>>

tool_vars ==
    <<tool_url, extract_schema, client, firecrawl_result, http_result, fallback_calls,
      tool_output>>

fetch_vars == <<platform_name, max_products, raw_data_str, parsed_data>>

rest_vars == <<api_vars, crew_result, tool_vars, fetch_vars>>

vars ==
    <<products, user_credit_cards, idx, results, pc, error, price_str, parsed,
      call_vars, scrape_vars, rest_vars>>

(***************************************************************************)
(* Bounds                                                                  *)
(***************************************************************************)
MaxProducts == 2
MaxPriceLen == 4
MaxPerPlatform == 2
MaxRequestId == 2

(***************************************************************************)
(* Characters and text                                                     *)
(***************************************************************************)
Rupee == "₹"

Digits == <<"0", "1", "2", "3", "4", "5", "6", "7", "8", "9">>

DigitValue == [c \in {Digits[d] : d \in 1..10} |-> (CHOOSE d \in 1..10 : Digits[d] = c) - 1]

IsDigit(c) == c \in DOMAIN DigitValue

DigitVal(c) == DigitValue[c]

\* \s of the regular expressions, on the characters the inputs use
IsSpace(c) == c \in {" ", "\t", "\n"}

UpperAlpha ==
    <<"A", "B", "C", "D", "E", "F", "G", "H", "I", "J", "K", "L", "M",
      "N", "O", "P", "Q", "R", "S", "T", "U", "V", "W", "X", "Y", "Z">>

LowerAlpha ==
    <<"a", "b", "c", "d", "e", "f", "g", "h", "i", "j", "k", "l", "m",
      "n", "o", "p", "q", "r", "s", "t", "u", "v", "w", "x", "y", "z">>

LowerOfUpper ==
    [c \in {UpperAlpha[k] : k \in 1..26} |->
        LowerAlpha[CHOOSE k \in 1..26 : UpperAlpha[k] = c]]

lower_char(c) == IF c \in DOMAIN LowerOfUpper THEN LowerOfUpper[c] ELSE c

UpperOfLower ==
    [c \in {LowerAlpha[k] : k \in 1..26} |->
        UpperAlpha[CHOOSE k \in 1..26 : LowerAlpha[k] = c]]

upper_char(c) == IF c \in DOMAIN UpperOfLower THEN UpperOfLower[c] ELSE c

\* str.lower()
lower(s) == [k \in 1..Len(s) |-> lower_char(s[k])]

Min(S) == CHOOSE x \in S : \A y \in S : x <= y

Max(S) == CHOOSE x \in S : \A y \in S : y <= x

\* str.capitalize()
capitalize(s) ==
    [k \in 1..Len(s) |-> IF k = 1 THEN upper_char(s[k]) ELSE lower_char(s[k])]

\* str.startswith(prefix)
StartsWith(s, prefix) == Len(s) >= Len(prefix) /\ SubSeq(s, 1, Len(prefix)) = prefix

\* str.strip()
strip(s) ==
    IF \A k \in 1..Len(s) : IsSpace(s[k]) THEN <<>>
    ELSE SubSeq(s, Min({k \in 1..Len(s) : ~IsSpace(s[k])}),
                   Max({k \in 1..Len(s) : ~IsSpace(s[k])}))

\* needle in hay (the substring test of str.__contains__)
Contains(needle, hay) ==
    \E k \in 0..(Len(hay) - Len(needle)) :
        \A j \in 1..Len(needle) : hay[k + j] = needle[j]

\* last position of the run of digits that starts at from (from - 1 when the
\* run is empty)
DigitRunEnd(s, from) ==
    IF \A k \in from..Len(s) : IsDigit(s[k]) THEN Len(s)
    ELSE Min({k \in from..Len(s) : ~IsDigit(s[k])}) - 1

\* the same for a run of whitespace
SpaceRunEnd(s, from) ==
    IF \A k \in from..Len(s) : IsSpace(s[k]) THEN Len(s)
    ELSE Min({k \in from..Len(s) : ~IsSpace(s[k])}) - 1

\* s without the characters of the set drop
RECURSIVE Without(_, _)
Without(s, drop) ==
    IF s = <<>> THEN <<>>
    ELSE IF s[1] \in drop THEN Without(Tail(s), drop)
    ELSE <<s[1]>> \o Without(Tail(s), drop)

(***************************************************************************)
(* Floats: an integer number of 1/Scale rupee                              *)
(***************************************************************************)
Scale == 100 * 100

\* Optional[float]
NoneF == [some |-> FALSE, val |-> 0]
SomeF(v) == [some |-> TRUE, val |-> v]

\* truth value of an Optional[float]: None and 0.0 are false
Truthy(o) == o.some /\ o.val /= 0

RECURSIVE DigitsVal(_)
DigitsVal(ds) ==
    IF ds = <<>> THEN 0
    ELSE DigitsVal(SubSeq(ds, 1, Len(ds) - 1)) * 10 + DigitVal(ds[Len(ds)])

\* the digits after the point, as a number of 1/Scale (four digits kept)
FracVal(ds) ==
    LET d(k) == IF k <= Len(ds) THEN DigitVal(ds[k]) ELSE 0
    IN  d(1) * 1000 + d(2) * 100 + d(3) * 10 + d(4)

\* float(text) for text of the form \d+\.?\d*
float_split(text, e) ==
    DigitsVal(SubSeq(text, 1, e)) * Scale
    + (IF e + 1 <= Len(text) THEN FracVal(SubSeq(text, e + 2, Len(text))) ELSE 0)

float(text) == float_split(text, DigitRunEnd(text, 1))

(***************************************************************************)
(* utils.parse_price                                                       *)
(***************************************************************************)
\* re.sub(r'[₹,]', '', str(price_str))
clean_price(s) == Without(s, {Rupee, ","})

\* the match of r'(\d+\.?\d*)' that starts at b: digits, then an optional point
\* and the digits after it
price_run(clean, b, e) ==
    SubSeq(clean, b, IF e + 1 <= Len(clean) /\ clean[e + 1] = "."
                     THEN DigitRunEnd(clean, e + 2)
                     ELSE e)

price_leftmost(clean, starts) ==
    IF starts = {} THEN <<>>
    ELSE price_run(clean, Min(starts), DigitRunEnd(clean, Min(starts)))

\* re.search(r'(\d+\.?\d*)', clean).group(1); <<>> when there is no match
price_match(clean) == price_leftmost(clean, {k \in 1..Len(clean) : IsDigit(clean[k])})

\* float(price_match.group(1)) if price_match else None
float_or_none(m) == IF m = <<>> THEN NoneF ELSE SomeF(float(m))

parse_price_NoStrip(s) ==
    IF s = <<>> THEN NoneF ELSE float_or_none(price_match(s))

parse_price(s) ==
    IF s = <<>> THEN NoneF ELSE float_or_none(price_match(clean_price(s)))

(***************************************************************************)
(* Sample texts                                                            *)
(***************************************************************************)
\* "Amazon Pay ICICI 5% cashback capped at ₹1,800"
OfferIciciCapped ==
    <<"A", "m", "a", "z", "o", "n", " ", "P", "a", "y", " ", "I", "C", "I", "C", "I", " ", "5",
      "%", " ", "c", "a", "s", "h", "b", "a", "c", "k", " ", "c", "a", "p", "p", "e", "d", " ",
      "a", "t", " ", Rupee, "1", ",", "8", "0", "0">>

\* "Bank Offer: 5% cashback on Flipkart Axis Bank Credit Card up to ₹4,000"
OfferAxisCapped ==
    <<"B", "a", "n", "k", " ", "O", "f", "f", "e", "r", ":", " ", "5", "%", " ", "c", "a", "s",
      "h", "b", "a", "c", "k", " ", "o", "n", " ", "F", "l", "i", "p", "k", "a", "r", "t", " ",
      "A", "x", "i", "s", " ", "B", "a", "n", "k", " ", "C", "r", "e", "d", "i", "t", " ", "C",
      "a", "r", "d", " ", "u", "p", " ", "t", "o", " ", Rupee, "4", ",", "0", "0", "0">>

\* "Special Price: Get extra ₹5000 off"
OfferSpecialPrice ==
    <<"S", "p", "e", "c", "i", "a", "l", " ", "P", "r", "i", "c", "e", ":", " ", "G", "e", "t",
      " ", "e", "x", "t", "r", "a", " ", Rupee, "5", "0", "0", "0", " ", "o", "f", "f">>

\* "Special Price: extra ₹5000 off incl. Flipkart Axis Bank Credit Card"
OfferSpecialPriceCard ==
    <<"S", "p", "e", "c", "i", "a", "l", " ", "P", "r", "i", "c", "e", ":", " ", "e", "x", "t",
      "r", "a", " ", Rupee, "5", "0", "0", "0", " ", "o", "f", "f", " ", "i", "n", "c", "l",
      ".", " ", "F", "l", "i", "p", "k", "a", "r", "t", " ", "A", "x", "i", "s", " ", "B", "a",
      "n", "k", " ", "C", "r", "e", "d", "i", "t", " ", "C", "a", "r", "d">>

\* "10% off on HDFC Bank Credit Card"
OfferHdfcBank ==
    <<"1", "0", "%", " ", "o", "f", "f", " ", "o", "n", " ", "H", "D", "F", "C", " ", "B", "a",
      "n", "k", " ", "C", "r", "e", "d", "i", "t", " ", "C", "a", "r", "d">>

\* "1% cashback with HDFC Bank Millennia"
OfferHdfcMillennia ==
    <<"1", "%", " ", "c", "a", "s", "h", "b", "a", "c", "k", " ", "w", "i", "t", "h", " ", "H",
      "D", "F", "C", " ", "B", "a", "n", "k", " ", "M", "i", "l", "l", "e", "n", "n", "i", "a">>

\* "Flat ₹5,000 off with HDFC Bank Millennia"
OfferFlatHdfc ==
    <<"F", "l", "a", "t", " ", Rupee, "5", ",", "0", "0", "0", " ", "o", "f", "f", " ", "w",
      "i", "t", "h", " ", "H", "D", "F", "C", " ", "B", "a", "n", "k", " ", "M", "i", "l", "l",
      "e", "n", "n", "i", "a">>

\* "HDFC Bank Millennia Cards, No Cost EMI"
OfferNoAmount ==
    <<"H", "D", "F", "C", " ", "B", "a", "n", "k", " ", "M", "i", "l", "l", "e", "n", "n", "i",
      "a", " ", "C", "a", "r", "d", "s", ",", " ", "N", "o", " ", "C", "o", "s", "t", " ", "E",
      "M", "I">>

\* "Flat ₹10 Instant Cashback on Paytm UPI"
OfferUpi ==
    <<"F", "l", "a", "t", " ", Rupee, "1", "0", " ", "I", "n", "s", "t", "a", "n", "t", " ",
      "C", "a", "s", "h", "b", "a", "c", "k", " ", "o", "n", " ", "P", "a", "y", "t", "m", " ",
      "U", "P", "I">>

\* "HDFC Bank Millennia"
CardHdfcMillennia ==
    <<"H", "D", "F", "C", " ", "B", "a", "n", "k", " ", "M", "i", "l", "l", "e", "n", "n", "i",
      "a">>

\* "Flipkart Axis Bank"
CardAxisFlipkart ==
    <<"F", "l", "i", "p", "k", "a", "r", "t", " ", "A", "x", "i", "s", " ", "B", "a", "n", "k">>

\* "amazon pay icici"
CardIciciAmazon ==
    <<"a", "m", "a", "z", "o", "n", " ", "p", "a", "y", " ", "i", "c", "i", "c", "i">>

\* "None"
NoOfferText ==
    <<"N", "o", "n", "e">>

\* "₹60,000"
Price60000 ==
    <<Rupee, "6", "0", ",", "0", "0", "0">>

\* "₹64,900"
Price64900 ==
    <<Rupee, "6", "4", ",", "9", "0", "0">>

\* "₹59,400.00"
Price59400 ==
    <<Rupee, "5", "9", ",", "4", "0", "0", ".", "0", "0">>

\* "₹1,000"
Price1000 ==
    <<Rupee, "1", ",", "0", "0", "0">>

\* "N/A"
PriceNA ==
    <<"N", "/", "A">>

\* "₹0"
PriceZero ==
    <<Rupee, "0">>

\* "₹61₹69"
PriceTwoRuns ==
    <<Rupee, "6", "1", Rupee, "6", "9">>

\* "₹1,35,900.00"
PriceLakh ==
    <<Rupee, "1", ",", "3", "5", ",", "9", "0", "0", ".", "0", "0">>

(***************************************************************************)
(* JSON values, as json.loads returns them                                 *)
(***************************************************************************)
\* an element of the credit_card_offers list
JString(text) == [type |-> "string", text |-> text]
JNumber == [type |-> "number", text |-> <<>>]
JNullItem == [type |-> "null", text |-> <<>>]

\* the value of the credit_card_offers key
OffersArray(items) == [type |-> "array", items |-> items, text |-> <<>>]
OffersNull == [type |-> "null", items |-> <<>>, text |-> <<>>]
OffersNumber == [type |-> "number", items |-> <<>>, text |-> <<>>]
OffersString(text) == [type |-> "string", items |-> <<>>, text |-> text]

\* the value of the whole document
DetailsObject(offers) == [type |-> "object", has_offers |-> TRUE, offers |-> offers]
DetailsObjectNoOffers == [type |-> "object", has_offers |-> FALSE, offers |-> OffersNull]
DetailsArray == [type |-> "array", has_offers |-> FALSE, offers |-> OffersNull]
DetailsNull == [type |-> "null", has_offers |-> FALSE, offers |-> OffersNull]

\* Product.basic_details: Optional[str]
\*   kind "None": None; "empty": ""; "invalid": text json.loads rejects;
\*   "json": text json.loads accepts, with the value it returns
BasicDetailsNone == [kind |-> "None", value |-> DetailsNull]
BasicDetailsEmpty == [kind |-> "empty", value |-> DetailsNull]
BasicDetailsInvalid == [kind |-> "invalid", value |-> DetailsNull]
BasicDetailsJson(value) == [kind |-> "json", value |-> value]

\* json.loads(product.basic_details)
json_loads(basic_details) ==
    IF basic_details.kind = "json"
    THEN [exc |-> "none", value |-> basic_details.value]
    ELSE [exc |-> "JSONDecodeError", value |-> DetailsNull]

\* details.get('credit_card_offers', [])
get_credit_card_offers(details) ==
    IF details.type /= "object"
    THEN [exc |-> "AttributeError", value |-> OffersNull]
    ELSE [exc |-> "none",
          value |-> IF details.has_offers THEN details.offers ELSE OffersArray(<<>>)]

\* iter(offers) of `for offer in offers`: a list gives its elements, a str its
\* characters, None and a number raise TypeError
iter_offers(offers) ==
    CASE offers.type = "array" -> [exc |-> "none", items |-> offers.items]
      [] offers.type = "string" ->
            [exc |-> "none",
             items |-> [k \in 1..Len(offers.text) |-> JString(<<offers.text[k]>>)]]
      [] OTHER -> [exc |-> "TypeError", items |-> <<>>]

(***************************************************************************)
(* analysis.calculate_discount_fallback: one offer                         *)
(***************************************************************************)
card_mentioned_Always(offer_text, cards) == TRUE

\* some card, lowered, is in the lowered offer text
any_card_in(cards, lowered_offer) ==
    \E k \in 1..Len(cards) : Contains(lower(cards[k]), lowered_offer)

\* any(card.lower() in offer.lower() for card in user_credit_cards)
card_mentioned(offer_text, cards) == any_card_in(cards, lower(offer_text))

\* re.search(r'(\d{1,2}(?:\.\d{1,2})?)%', offer): the match that starts at b, as
\* <<integer digits, fraction digits>>; at most one such pair matches at b
percent_at(s, b) ==
    {nm \in {1, 2} \X {0, 1, 2} :
        LET n == nm[1]
            m == nm[2]
            e == IF m = 0 THEN b + n ELSE b + n + 1 + m
        IN  /\ e <= Len(s)
            /\ \A k \in b..(b + n - 1) : IsDigit(s[k])
            /\ m > 0 => s[b + n] = "."
            /\ m > 0 => \A k \in (b + n + 1)..(b + n + m) : IsDigit(s[k])
            /\ s[e] = "%"}

\* float(percent_match.group(1)) of the match nm at b, in hundredths of a percent
percent_value(s, b, nm) ==
    DigitsVal(SubSeq(s, b, b + nm[1] - 1)) * 100
    + (IF nm[2] = 1 THEN 10 ELSE 1)
      * DigitsVal(SubSeq(s, b + nm[1] + 1, b + nm[1] + nm[2]))

\* the leftmost match among the start positions; found is whether there is one
percent_leftmost(s, starts) ==
    IF starts = {} THEN [found |-> FALSE, value |-> 0]
    ELSE [found |-> TRUE,
          value |-> percent_value(s, Min(starts),
                                  CHOOSE nm \in percent_at(s, Min(starts)) : TRUE)]

\* percent_match = re.search(r'(\d{1,2}(?:\.\d{1,2})?)%', offer)
percent_match(s) == percent_leftmost(s, {b \in 1..Len(s) : percent_at(s, b) /= {}})

IsAmountChar(c) == IsDigit(c) \/ c = ","

\* last position of the run of digits and commas that starts at from
AmountRunEnd(s, from) ==
    IF \A k \in from..Len(s) : IsAmountChar(s[k]) THEN Len(s)
    ELSE Min({k \in from..Len(s) : ~IsAmountChar(s[k])}) - 1

\* first position of group 1 of r'[₹Rs\.]\s*([\d,]+)' for a match starting at b,
\* 0 when there is none
amount_at(s, b) ==
    IF s[b] \notin {Rupee, "R", "s", "."} THEN 0
    ELSE LET g == SpaceRunEnd(s, b + 1) + 1
         IN  IF g <= Len(s) /\ IsAmountChar(s[g]) THEN g ELSE 0

\* group(1).replace(',', '') of the group that starts at g
amount_digits(s, g) ==
    Without(SubSeq(s, g, AmountRunEnd(s, g)), {","})

\* the leftmost match among the start positions; found is whether there is one
amount_leftmost(s, starts) ==
    IF starts = {} THEN [found |-> FALSE, digits |-> <<>>]
    ELSE [found |-> TRUE, digits |-> amount_digits(s, amount_at(s, Min(starts)))]

\* amount_match = re.search(r'[₹Rs\.]\s*([\d,]+)', offer)
amount_match(s) == amount_leftmost(s, {b \in 1..Len(s) : amount_at(s, b) /= 0})

\* original_price * (percent / 100), percent in hundredths of a percent
percent_of(original_price, value) ==
    (original_price \div 10000) * value + ((original_price % 10000) * value) \div 10000

\* lines 93-97: the if/elif on the two matches; float('') raises ValueError
discount_of_matches(pm, am, original_price) ==
    IF pm.found
    THEN [exc |-> "none", value |-> percent_of(original_price, pm.value)]
    ELSE IF am.found
    THEN IF am.digits = <<>>
         THEN [exc |-> "ValueError", value |-> 0]
         ELSE [exc |-> "none", value |-> DigitsVal(am.digits) * Scale]
    ELSE [exc |-> "none", value |-> 0]

\* lines 90-97: current_discount of an offer that mentions a card
current_discount(offer_text, original_price) ==
    discount_of_matches(percent_match(offer_text), amount_match(offer_text),
                        original_price)

(***************************************************************************)
(* analysis.calculate_discount_fallback: one product                       *)
(***************************************************************************)
Best(exc, best_discount, best_offer_text) ==
    [exc |-> exc, best_discount |-> best_discount, best_offer_text |-> best_offer_text]

RECURSIVE offers_loop(_, _, _, _, _)

\* lines 99-101: keep the larger discount, then go on with the next offer
keep_best(items, k, original_price, cards, best, d) ==
    IF d.exc /= "none" THEN [best EXCEPT !.exc = d.exc]
    ELSE offers_loop(items, k + 1, original_price, cards,
                     IF d.value > best.best_discount
                     THEN Best("none", d.value, items[k].text)
                     ELSE best)

\* lines 86-101: the loop over the offers from offer k on, with the best
\* discount so far; offer.lower() of an offer that is no str raises
\* AttributeError, and only when there is a card to test it against
offers_loop(items, k, original_price, cards, best) ==
    IF k > Len(items) THEN best
    ELSE IF cards /= <<>> /\ items[k].type /= "string"
    THEN [best EXCEPT !.exc = "AttributeError"]
    ELSE keep_best(items, k, original_price, cards, best,
                   IF card_mentioned(items[k].text, cards)
                   THEN current_discount(items[k].text, original_price)
                   ELSE [exc |-> "none", value |-> 0])

\* line 103: except (json.JSONDecodeError, AttributeError): pass
except_pass(r) == IF r.exc = "AttributeError" THEN [r EXCEPT !.exc = "none"] ELSE r

\* line 86: for offer in offers
for_offers(it, original_price, cards) ==
    IF it.exc /= "none" THEN Best(it.exc, 0, NoOfferText)
    ELSE offers_loop(it.items, 1, original_price, cards, Best("none", 0, NoOfferText))

\* line 84 and the loop it feeds
with_offers(got, original_price, cards) ==
    IF got.exc /= "none" THEN Best(got.exc, 0, NoOfferText)
    ELSE for_offers(iter_offers(got.value), original_price, cards)

\* line 83 and what follows it in the try block
with_details(loaded, original_price, cards) ==
    IF loaded.exc /= "none" THEN Best("none", 0, NoOfferText)
    ELSE except_pass(with_offers(get_credit_card_offers(loaded.value),
                                 original_price, cards))

\* lines 78-104: best_discount and best_offer_text of a product; exc is the
\* exception that the try block does not catch, "none" when there is none
best_offer(product, original_price, cards) ==
    IF product.basic_details.kind \in {"None", "empty"}
    THEN Best("none", 0, NoOfferText)
    ELSE with_details(json_loads(product.basic_details), original_price, cards)

\* line 74: product.original_price or parse_price(product.price)
resolve_original_price(product) ==
    IF Truthy(product.original_price) THEN product.original_price
    ELSE parse_price(product.price)

\* lines 106-116: ProductOutput(...).model_dump()
ProductOutput(product, original_price, best) ==
    [title |-> product.title,
     platform |-> product.platform,
     price |-> product.price,
     original_price |-> original_price,
     effective_price |-> original_price - best.best_discount,
     discount_applied |-> best.best_offer_text,
     url |-> product.url,
     rating |-> product.rating,
     seller |-> product.seller]

\* placeholder of the entry field of a step that appends nothing
NoEntry ==
    [title |-> "", platform |-> "", price |-> <<>>, original_price |-> 0,
     effective_price |-> 0, discount_applied |-> NoOfferText, url |-> "",
     rating |-> "None", seller |-> "None"]

\* lines 105-116: append the entry, unless an exception left the try block
step_with(product, original_price, best) ==
    IF best.exc /= "none"
    THEN [kind |-> "raise", exc |-> best.exc, entry |-> NoEntry]
    ELSE [kind |-> "append", exc |-> "none",
          entry |-> ProductOutput(product, original_price, best)]

step_for_AbortOnNoPrice(product, original_price, cards) ==
    IF ~Truthy(original_price)
    THEN [kind |-> "raise", exc |-> "TypeError", entry |-> NoEntry]
    ELSE step_with(product, original_price.val,
                   best_offer(product, original_price.val, cards))

\* lines 75-116: `if not original_price: continue`, then the pricing
step_for(product, original_price, cards) ==
    IF ~Truthy(original_price)
    THEN [kind |-> "skip", exc |-> "none", entry |-> NoEntry]
    ELSE step_with(product, original_price.val,
                   best_offer(product, original_price.val, cards))

\* lines 73-116: the body of the loop over products, for one product:
\* "skip" (continue), "append" (results.append) or "raise"
product_step(product, cards) ==
    step_for(product, resolve_original_price(product), cards)

\* line 119: `return results`, the list alone; the count of skipped listings
\* that comes back with it: none
returned_skipped == NoneF

sort_by_effective_price_Unsorted(rs) == rs

RECURSIVE sort_by_effective_price_Unstable(_)
sort_by_effective_price_Unstable(rs) ==
    IF rs = <<>> THEN <<>>
    ELSE LET x == rs[Len(rs)]
             sorted == sort_by_effective_price_Unstable(SubSeq(rs, 1, Len(rs) - 1))
             n == Cardinality({k \in 1..Len(sorted) :
                                  sorted[k].effective_price < x.effective_price})
         IN  SubSeq(sorted, 1, n) \o <<x>> \o SubSeq(sorted, n + 1, Len(sorted))

\* line 118: results.sort(key=lambda x: x['effective_price']), a stable sort
RECURSIVE sort_by_effective_price(_)
sort_by_effective_price(rs) ==
    IF rs = <<>> THEN <<>>
    ELSE LET x == rs[Len(rs)]
             sorted == sort_by_effective_price(SubSeq(rs, 1, Len(rs) - 1))
             n == Cardinality({k \in 1..Len(sorted) :
                                  sorted[k].effective_price <= x.effective_price})
         IN  SubSeq(sorted, 1, n) \o <<x>> \o SubSeq(sorted, n + 1, Len(sorted))

(***************************************************************************)
(* Sample listings                                                         *)
(***************************************************************************)
Listing(title, platform, price, original_price, basic_details) ==
    [title |-> title, platform |-> platform, price |-> price,
     original_price |-> original_price, basic_details |-> basic_details,
     rating |-> "None", seller |-> "None"]

Offers(texts) == BasicDetailsJson(DetailsObject(OffersArray(
    [k \in 1..Len(texts) |-> JString(texts[k])])))

QueryTitle == "iPhone 15 128GB"
OtherTitle == "iPhone 14 Back Cover"

Catalogue ==
    { Listing(OtherTitle, "Amazon", Price60000, NoneF, Offers(<<OfferIciciCapped>>)),
      Listing(QueryTitle, "Flipkart", Price64900, NoneF,
              Offers(<<OfferSpecialPrice, OfferAxisCapped>>)),
      Listing(QueryTitle, "Flipkart", Price64900, NoneF,
              Offers(<<OfferSpecialPriceCard, OfferAxisCapped>>)),
      Listing(OtherTitle, "Amazon", Price60000, NoneF,
              Offers(<<OfferHdfcBank, OfferUpi>>)),
      Listing(OtherTitle, "Amazon", Price60000, NoneF,
              Offers(<<OfferHdfcMillennia, OfferHdfcBank>>)),
      Listing(OtherTitle, "Bigbasket", Price1000, NoneF, Offers(<<OfferFlatHdfc>>)),
      Listing(QueryTitle, "Amazon", Price59400, NoneF, BasicDetailsNone),
      Listing(OtherTitle, "Bigbasket", PriceLakh, NoneF, BasicDetailsEmpty),
      Listing(OtherTitle, "Amazon", PriceNA, NoneF, Offers(<<OfferHdfcMillennia>>)),
      Listing(OtherTitle, "Amazon", PriceNA, SomeF(58200 * Scale),
              Offers(<<OfferHdfcMillennia>>)),
      Listing(OtherTitle, "Flipkart", PriceZero, NoneF, BasicDetailsNone),
      Listing(OtherTitle, "Flipkart", Price1000, NoneF, BasicDetailsInvalid),
      Listing(OtherTitle, "Flipkart", Price1000, NoneF, BasicDetailsJson(DetailsArray)),
      Listing(OtherTitle, "Flipkart", Price1000, NoneF,
              BasicDetailsJson(DetailsObjectNoOffers)),
      Listing(OtherTitle, "Flipkart", Price1000, NoneF,
              BasicDetailsJson(DetailsObject(OffersNull))),
      Listing(OtherTitle, "Flipkart", Price1000, NoneF,
              BasicDetailsJson(DetailsObject(OffersString(NoOfferText)))),
      Listing(OtherTitle, "Amazon", Price60000, NoneF,
              BasicDetailsJson(DetailsObject(OffersArray(
                  <<JString(OfferHdfcMillennia), JNumber, JString(OfferFlatHdfc)>>)))),
      Listing(OtherTitle, "Amazon", Price60000, NoneF,
              Offers(<<OfferHdfcMillennia, OfferNoAmount>>)) }

CardLists ==
    { <<>>,
      <<CardHdfcMillennia>>,
      <<CardAxisFlipkart>>,
      <<CardIciciAmazon, CardHdfcMillennia>> }

\* the listings of one call: the scraper gives each listing its own url
Batches ==
    UNION {[1..n -> Catalogue] : n \in 0..MaxProducts}

WithUrls(batch) ==
    [k \in 1..Len(batch) |->
        [title |-> batch[k].title, platform |-> batch[k].platform,
         price |-> batch[k].price, original_price |-> batch[k].original_price,
         basic_details |-> batch[k].basic_details, rating |-> batch[k].rating,
         seller |-> batch[k].seller, url |-> ToString(k)]]

\* how a call ended: pc is "returned" or "raised"
Outcome(at, exc, returned) == [pc |-> at, error |-> exc, results |-> returned]

NoOutcome == Outcome("none", "none", <<>>)

\* the variables of the scraping pipeline, when it is not run
IdleScrape ==
    /\ max_products_per_platform = 0
    /\ max_detail_pages = 0
    /\ platform_idx = 0
    /\ crawled = <<>>
    /\ item_idx = 0
    /\ count = 0
    /\ listings = <<>>
    /\ processed_urls = {}
    /\ attempts = <<>>
    /\ detailed_products = <<>>
    /\ fetches = <<>>

\* the variables of the POST /analyze-prices handler, when no request is served
IdleApi ==
    /\ request = <<>>
    /\ validated = <<>>
    /\ request_id = 0
    /\ engine_args = <<>>
    /\ scraper_results = <<>>
    /\ model_reply = <<>>
    /\ result = <<>>
    /\ response = <<>>

\* the variables of FirecrawlScrapingTool, when it is not run
IdleTool ==
    /\ tool_url = <<>>
    /\ extract_schema = FALSE
    /\ client = FALSE
    /\ firecrawl_result = <<>>
    /\ http_result = <<>>
    /\ fallback_calls = 0
    /\ tool_output = <<>>

\* the variables of fetch_product_listings, when it is not run
IdleFetch ==
    /\ platform_name = 0
    /\ max_products = 0
    /\ raw_data_str = <<>>
    /\ parsed_data = <<>>

IdleRest == IdleApi /\ crew_result = <<>> /\ IdleTool /\ IdleFetch

\* the variables of calculate_discount_fallback and parse_price, when neither is run
IdleFallback ==
    /\ products = <<>>
    /\ user_credit_cards = <<>>
    /\ idx = 1
    /\ results = <<>>
    /\ error = "none"
    /\ price_str = <<>>
    /\ parsed = NoneF
    /\ calls = 1
    /\ first_outcome = NoOutcome
    /\ given_products = <<>>

(***************************************************************************)
(* Specification of calculate_discount_fallback: one call                  *)
(***************************************************************************)
Init ==
    /\ products \in {WithUrls(b) : b \in Batches}
    /\ user_credit_cards \in CardLists
    /\ idx = 1
    /\ results = <<>>
    /\ pc = "loop"
    /\ error = "none"
    /\ price_str = <<>>
    /\ parsed = NoneF
    /\ calls = 1
    /\ first_outcome = NoOutcome
    /\ given_products = products
    /\ IdleScrape
    /\ IdleRest

\* the loop body ends in `continue` (line 76)
SkipProduct ==
    /\ pc = "loop"
    /\ idx <= Len(products)
    /\ product_step(products[idx], user_credit_cards).kind = "skip"
    /\ idx' = idx + 1
    /\ UNCHANGED <<products, user_credit_cards, results, pc, error, price_str, parsed,
                   call_vars, scrape_vars, rest_vars>>

\* the loop body ends in results.append (line 106)
PriceProduct ==
    /\ pc = "loop"
    /\ idx <= Len(products)
    /\ product_step(products[idx], user_credit_cards).kind = "append"
    /\ results' = Append(results, product_step(products[idx], user_credit_cards).entry)
    /\ idx' = idx + 1
    /\ UNCHANGED <<products, user_credit_cards, pc, error, price_str, parsed,
                   call_vars, scrape_vars, rest_vars>>

\* an exception the loop body does not catch leaves the function
RaiseInProduct ==
    /\ pc = "loop"
    /\ idx <= Len(products)
    /\ product_step(products[idx], user_credit_cards).kind = "raise"
    /\ error' = product_step(products[idx], user_credit_cards).exc
    /\ pc' = "raised"
    /\ UNCHANGED <<products, user_credit_cards, idx, results, price_str, parsed,
                   call_vars, scrape_vars, rest_vars>>

\* lines 118-119: sort and return
SortAndReturn ==
    /\ pc = "loop"
    /\ idx > Len(products)
    /\ results' = sort_by_effective_price(results)
    /\ pc' = "returned"
    /\ UNCHANGED <<products, user_credit_cards, idx, error, price_str, parsed,
                   call_vars, scrape_vars, rest_vars>>

Next ==
    \/ SkipProduct
    \/ PriceProduct
    \/ RaiseInProduct
    \/ SortAndReturn

Spec == Init /\ [][Next]_vars

(***************************************************************************)
(* Specification of calculate_discount_fallback called twice on the same   *)
(* arguments                                                               *)
(***************************************************************************)
\* the listings of the Amazon scrape
TwiceCatalogue == {l \in Catalogue : l.platform = "Amazon"}

InitTwice ==
    /\ products \in {WithUrls(b) : b \in UNION {[1..n -> TwiceCatalogue] : n \in 0..MaxProducts}}
    /\ user_credit_cards \in CardLists
    /\ idx = 1
    /\ results = <<>>
    /\ pc = "loop"
    /\ error = "none"
    /\ price_str = <<>>
    /\ parsed = NoneF
    /\ calls = 1
    /\ first_outcome = NoOutcome
    /\ given_products = products
    /\ IdleScrape
    /\ IdleRest

CallAgain_KeepResults ==
    /\ pc \in {"returned", "raised"}
    /\ calls = 1
    /\ first_outcome' = Outcome(pc, error, results)
    /\ calls' = 2
    /\ idx' = 1
    /\ pc' = "loop"
    /\ error' = "none"
    /\ UNCHANGED <<products, user_credit_cards, results, given_products, price_str, parsed,
                   scrape_vars, rest_vars>>

\* the call is over and the function is called again with the same arguments:
\* lines 68-71, `results = []`
CallAgain ==
    /\ pc \in {"returned", "raised"}
    /\ calls = 1
    /\ first_outcome' = Outcome(pc, error, results)
    /\ calls' = 2
    /\ results' = <<>>
    /\ idx' = 1
    /\ pc' = "loop"
    /\ error' = "none"
    /\ UNCHANGED <<products, user_credit_cards, given_products, price_str, parsed,
                   scrape_vars, rest_vars>>

NextTwice ==
    \/ SkipProduct
    \/ PriceProduct
    \/ RaiseInProduct
    \/ SortAndReturn
    \/ CallAgain

SpecTwice == InitTwice /\ [][NextTwice]_vars

(***************************************************************************)
(* Specification of parse_price alone: one call on a bounded price text    *)
(***************************************************************************)
PriceAlphabet == {Rupee, ",", ".", "1", "6", "x"}

RECURSIVE TextsUpTo(_)
TextsUpTo(n) ==
    IF n = 0 THEN {<<>>}
    ELSE LET shorter == TextsUpTo(n - 1)
         IN  shorter \cup {Append(t, c) : t \in {u \in shorter : Len(u) = n - 1},
                                           c \in PriceAlphabet}

PriceTexts == TextsUpTo(MaxPriceLen) \cup {PriceTwoRuns, PriceLakh, Price60000, PriceNA}

InitParse ==
    /\ price_str \in PriceTexts
    /\ parsed = NoneF
    /\ pc = "parse"
    /\ products = <<>>
    /\ user_credit_cards = <<>>
    /\ idx = 1
    /\ results = <<>>
    /\ error = "none"
    /\ calls = 1
    /\ first_outcome = NoOutcome
    /\ given_products = <<>>
    /\ IdleScrape
    /\ IdleRest

ParsePrice ==
    /\ pc = "parse"
    /\ parsed' = parse_price(price_str)
    /\ pc' = "parsed"
    /\ UNCHANGED <<products, user_credit_cards, idx, results, error, price_str,
                   call_vars, scrape_vars, rest_vars>>

NextParse == ParsePrice

SpecParse == InitParse /\ [][NextParse]_vars


(***************************************************************************)
(* Sample texts of the scraping pipeline                                   *)
(***************************************************************************)
\* "amazon"
PlatformAmazon ==
    <<"a", "m", "a", "z", "o", "n">>

\* "flipkart"
PlatformFlipkart ==
    <<"f", "l", "i", "p", "k", "a", "r", "t">>

\* "https://www.amazon.in"
BaseUrlAmazon ==
    <<"h", "t", "t", "p", "s", ":", "/", "/", "w", "w", "w", ".", "a", "m", "a", "z", "o", "n",
      ".", "i", "n">>

\* "https://www.flipkart.com"
BaseUrlFlipkart ==
    <<"h", "t", "t", "p", "s", ":", "/", "/", "w", "w", "w", ".", "f", "l", "i", "p", "k", "a",
      "r", "t", ".", "c", "o", "m">>

\* "http"
HttpPrefix ==
    <<"h", "t", "t", "p">>

\* "/dp/"
DpMark ==
    <<"/", "d", "p", "/">>

\* "amazon."
AmazonMark ==
    <<"a", "m", "a", "z", "o", "n", ".">>

\* "flipkart."
FlipkartMark ==
    <<"f", "l", "i", "p", "k", "a", "r", "t", ".">>

\* "/dp/B0CHX2F5QT"
UrlAmazonRel ==
    <<"/", "d", "p", "/", "B", "0", "C", "H", "X", "2", "F", "5", "Q", "T">>

\* "https://www.amazon.in/Apple-iPhone/dp/B0CHX2F5QT/ref=sr_1_1"
UrlAmazonAbs ==
    <<"h", "t", "t", "p", "s", ":", "/", "/", "w", "w", "w", ".", "a", "m", "a", "z", "o", "n",
      ".", "i", "n", "/", "A", "p", "p", "l", "e", "-", "i", "P", "h", "o", "n", "e", "/", "d",
      "p", "/", "B", "0", "C", "H", "X", "2", "F", "5", "Q", "T", "/", "r", "e", "f", "=", "s",
      "r", "_", "1", "_", "1">>

\* "/Apple-iPhone/dp/B0CHX3TW6X?th=1"
UrlAmazonOther ==
    <<"/", "A", "p", "p", "l", "e", "-", "i", "P", "h", "o", "n", "e", "/", "d", "p", "/", "B",
      "0", "C", "H", "X", "3", "T", "W", "6", "X", "?", "t", "h", "=", "1">>

\* "/sspa/click?ie=UTF8"
UrlAmazonNoAsin ==
    <<"/", "s", "s", "p", "a", "/", "c", "l", "i", "c", "k", "?", "i", "e", "=", "U", "T", "F",
      "8">>

\* "/dp/B0CHX"
UrlAmazonShortAsin ==
    <<"/", "d", "p", "/", "B", "0", "C", "H", "X">>

\* "B0CHX6NQMD"
AsinDirect ==
    <<"B", "0", "C", "H", "X", "6", "N", "Q", "M", "D">>

\* "/apple-iphone-15/p/itm1"
UrlFlipkartRel ==
    <<"/", "a", "p", "p", "l", "e", "-", "i", "p", "h", "o", "n", "e", "-", "1", "5", "/", "p",
      "/", "i", "t", "m", "1">>

\* "https://www.flipkart.com/apple-iphone-15/p/itm1"
UrlFlipkartAbs ==
    <<"h", "t", "t", "p", "s", ":", "/", "/", "w", "w", "w", ".", "f", "l", "i", "p", "k", "a",
      "r", "t", ".", "c", "o", "m", "/", "a", "p", "p", "l", "e", "-", "i", "p", "h", "o", "n",
      "e", "-", "1", "5", "/", "p", "/", "i", "t", "m", "1">>

\* "/apple-iphone-15-pink/p/itm2"
UrlFlipkartOther ==
    <<"/", "a", "p", "p", "l", "e", "-", "i", "p", "h", "o", "n", "e", "-", "1", "5", "-", "p",
      "i", "n", "k", "/", "p", "/", "i", "t", "m", "2">>

\* "https://www.bigbasket.com/pd/40331223"
UrlElsewhere ==
    <<"h", "t", "t", "p", "s", ":", "/", "/", "w", "w", "w", ".", "b", "i", "g", "b", "a", "s",
      "k", "e", "t", ".", "c", "o", "m", "/", "p", "d", "/", "4", "0", "3", "3", "1", "2", "2",
      "3">>

\* "Apple iPhone 15 Blue"
TitleBlue ==
    <<"A", "p", "p", "l", "e", " ", "i", "P", "h", "o", "n", "e", " ", "1", "5", " ", "B", "l",
      "u", "e">>

\* "  Apple iPhone 15 Pink "
TitlePink ==
    <<" ", " ", "A", "p", "p", "l", "e", " ", "i", "P", "h", "o", "n", "e", " ", "1", "5", " ",
      "P", "i", "n", "k", " ">>

\* "  "
TitleBlank ==
    <<" ", " ">>

\* "FIRECRAWL_API_KEY not set"
ErrorNoApiKey ==
    <<"F", "I", "R", "E", "C", "R", "A", "W", "L", "_", "A", "P", "I", "_", "K", "E", "Y", " ",
      "n", "o", "t", " ", "s", "e", "t">>

\* "Unsupported platform"
ErrorUnsupported ==
    <<"U", "n", "s", "u", "p", "p", "o", "r", "t", "e", "d", " ", "p", "l", "a", "t", "f", "o",
      "r", "m">>

\* "Failed to extract product data"
ErrorNoData ==
    <<"F", "a", "i", "l", "e", "d", " ", "t", "o", " ", "e", "x", "t", "r", "a", "c", "t", " ",
      "p", "r", "o", "d", "u", "c", "t", " ", "d", "a", "t", "a">>

\* "Connection reset"
ErrorException ==
    <<"C", "o", "n", "n", "e", "c", "t", "i", "o", "n", " ", "r", "e", "s", "e", "t">>

\* "No product listings found"
ErrorNoListings ==
    <<"N", "o", " ", "p", "r", "o", "d", "u", "c", "t", " ", "l", "i", "s", "t", "i", "n", "g",
      "s", " ", "f", "o", "u", "n", "d">>

(***************************************************************************)
(* main.scrape_product_listings: one item of raw_data                      *)
(***************************************************************************)
\* a value of an item's key: the key is absent, its value is null, or a text
Absent == [kind |-> "absent", text |-> <<>>]
Null == [kind |-> "null", text |-> <<>>]
Text(t) == [kind |-> "text", text |-> t]

\* an element of raw_data: what the CSS extraction gives for one search result
Item(title, url, asin_direct, price) ==
    [title |-> title, url |-> url, asin_direct |-> asin_direct, price |-> price,
     rating |-> Absent]

\* item.get(key, ''): '' when the key is absent, None when its value is null
get_or_empty(field) == IF field.kind = "absent" THEN Text(<<>>) ELSE field

\* item.get(key): None when the key is absent
get_or_none(field) == IF field.kind = "absent" THEN Null ELSE field

\* the platforms dict, in the order the loop goes through it
Platforms ==
    <<[name |-> PlatformAmazon, base_url |-> BaseUrlAmazon],
      [name |-> PlatformFlipkart, base_url |-> BaseUrlFlipkart]>>

\* lines 185-186 and 199-200: a relative url gets the base url in front
with_base(url, base) == IF StartsWith(url, HttpPrefix) THEN url ELSE base \o url

IsAsinChar(c) == c \in DOMAIN LowerOfUpper \/ IsDigit(c)

\* r'/dp/([A-Z0-9]{10})' matches at b
asin_at(url, b) ==
    /\ b + 13 <= Len(url)
    /\ SubSeq(url, b, b + 3) = DpMark
    /\ \A k \in (b + 4)..(b + 13) : IsAsinChar(url[k])

asin_leftmost(url, starts) ==
    IF starts = {} THEN [found |-> FALSE, asin |-> <<>>]
    ELSE [found |-> TRUE, asin |-> SubSeq(url, Min(starts) + 4, Min(starts) + 13)]

\* asin_match = re.search(r'/dp/([A-Z0-9]{10})', url)
asin_match(url) == asin_leftmost(url, {b \in 1..Len(url) : asin_at(url, b)})

NoUrl == [ok |-> FALSE, url |-> <<>>]

\* lines 188-197: the canonical /dp/ url, from the url or else from asin_direct
amazon_url(m, asin_direct, base) ==
    IF m.found THEN [ok |-> TRUE, url |-> base \o DpMark \o m.asin]
    ELSE IF asin_direct.kind = "text" /\ asin_direct.text /= <<>>
    THEN [ok |-> TRUE, url |-> base \o DpMark \o asin_direct.text]
    ELSE NoUrl

\* lines 183-200: the url of the listing; ok is FALSE when the item has none
resolve_url(item, platform) ==
    IF platform.name = PlatformAmazon
    THEN amazon_url(asin_match(with_base(get_or_empty(item.url).text, platform.base_url)),
                    item.asin_direct, platform.base_url)
    ELSE [ok |-> TRUE, url |-> with_base(get_or_empty(item.url).text, platform.base_url)]

\* lines 209-215: listing_item
listing_item(item, platform, url) ==
    [title |-> strip(get_or_empty(item.title).text),
     price_str |-> get_or_empty(item.price),
     rating_str |-> get_or_none(item.rating),
     url |-> url,
     platform |-> capitalize(platform.name)]

NoListing ==
    [title |-> <<>>, price_str |-> Null, rating_str |-> Null, url |-> <<>>,
     platform |-> <<>>]

is_duplicate_Never(url, seen) == FALSE

\* line 203: url in processed_urls
is_duplicate(url, seen) == url \in seen

\* lines 202-217, for the url r the item resolved to
url_step(item, platform, seen, r) ==
    IF ~r.ok THEN [kind |-> "skip", listing |-> NoListing]
    ELSE IF is_duplicate(r.url, seen) THEN [kind |-> "skip", listing |-> NoListing]
    ELSE [kind |-> "add", listing |-> listing_item(item, platform, r.url)]

\* lines 177-217: the body of the loop over raw_data for one item: "skip"
\* (continue), "add" (listings.append) or "raise" (None.strip() and
\* None.startswith raise AttributeError)
item_step(item, platform, seen) ==
    IF get_or_empty(item.title).kind = "null"
    THEN [kind |-> "raise", listing |-> NoListing]
    ELSE IF strip(get_or_empty(item.title).text) = <<>>
    THEN [kind |-> "skip", listing |-> NoListing]
    ELSE IF get_or_empty(item.url).kind = "null"
    THEN [kind |-> "raise", listing |-> NoListing]
    ELSE url_step(item, platform, seen, resolve_url(item, platform))

(***************************************************************************)
(* main.scrape_product_details                                             *)
(***************************************************************************)
\* detect_platform
detect_platform(url) ==
    IF Contains(AmazonMark, lower(url)) THEN "amazon"
    ELSE IF Contains(FlipkartMark, lower(url)) THEN "flipkart"
    ELSE "unknown"

DetailError(message, url) ==
    [kind |-> "error", error |-> message, url |-> url, platform |-> "none"]

\* what app.scrape_url does: it gives data, gives none, or raises
DetailAnswers == {"data", "no_data", "exception"}

\* scrape_product_details(url), given whether FIRECRAWL_API_KEY is set and
\* what app.scrape_url does
scrape_product_details(url, api_key, answer) ==
    IF ~api_key THEN DetailError(ErrorNoApiKey, url)
    ELSE IF detect_platform(url) = "unknown" THEN DetailError(ErrorUnsupported, url)
    ELSE IF answer = "data"
    THEN [kind |-> "data", error |-> <<>>, url |-> url, platform |-> detect_platform(url)]
    ELSE IF answer = "no_data" THEN DetailError(ErrorNoData, url)
    ELSE DetailError(ErrorException, url)

(***************************************************************************)
(* Sample search results                                                   *)
(***************************************************************************)
Price60300 == Text(<<Rupee, "6", "0", ",", "3", "0", "0">>)

AmazonResults ==
    { <<>>,
      <<Item(Text(TitleBlue), Text(UrlAmazonRel), Absent, Price60300),
        Item(Text(TitlePink), Text(UrlAmazonAbs), Absent, Price60300),
        Item(Text(TitlePink), Text(UrlAmazonOther), Absent, Absent)>>,
      <<Item(Text(TitleBlank), Text(UrlAmazonRel), Absent, Price60300),
        Item(Text(TitleBlue), Text(UrlAmazonNoAsin), Text(AsinDirect), Price60300),
        Item(Text(TitlePink), Text(UrlAmazonShortAsin), Null, Price60300),
        Item(Text(TitlePink), Text(UrlAmazonOther), Absent, Price60300)>>,
      <<Item(Text(TitleBlue), Absent, Text(AsinDirect), Price60300),
        Item(Null, Text(UrlAmazonRel), Absent, Price60300),
        Item(Text(TitlePink), Text(UrlAmazonOther), Absent, Price60300)>> }

FlipkartResults ==
    { <<Item(Text(TitleBlue), Text(UrlFlipkartRel), Absent, Price60300),
        Item(Text(TitlePink), Text(UrlFlipkartAbs), Absent, Price60300),
        Item(Text(TitlePink), Text(UrlFlipkartOther), Absent, Absent)>>,
      <<Item(Text(TitleBlue), Text(UrlElsewhere), Absent, Price60300),
        Item(Text(TitlePink), Null, Absent, Price60300),
        Item(Text(TitlePink), Text(UrlFlipkartOther), Absent, Price60300)>>,
      <<Item(Absent, Text(UrlFlipkartRel), Absent, Price60300),
        Item(Text(TitleBlue), Absent, Absent, Price60300)>> }

\* the raw_data a successful crawl of the platform may give
RawSamples(p) == IF p = 1 THEN AmazonResults ELSE FlipkartResults

\* the ways a crawl fails: result.success is false or nothing was extracted
\* (lines 225-228), extracted_content does not decode (lines 221-223),
\* crawler.arun raises (lines 230-234)
CrawlFailures == {"unsuccessful", "undecodable", "exception"}

\* the values of max_detail_pages
DetailPageLimits == {1, 2}

(***************************************************************************)
(* Specification of run_product_pipeline: one call                         *)
(***************************************************************************)
Crawl(kind, raw_data, aborted) == [kind |-> kind, raw_data |-> raw_data, aborted |-> aborted]

PlatformIndexes == 1..Len(Platforms)

InitScrape ==
    /\ max_products_per_platform \in 1..MaxPerPlatform
    /\ max_detail_pages \in DetailPageLimits
    /\ platform_idx = 1
    /\ crawled = [p \in PlatformIndexes |-> Crawl("pending", <<>>, FALSE)]
    /\ item_idx = 0
    /\ count = 0
    /\ listings = <<>>
    /\ processed_urls = {}
    /\ attempts = [p \in PlatformIndexes |-> 0]
    /\ detailed_products = <<>>
    /\ fetches = <<>>
    /\ pc = "platforms"
    /\ error = "none"
    /\ products = <<>>
    /\ user_credit_cards = <<>>
    /\ idx = 1
    /\ results = <<>>
    /\ price_str = <<>>
    /\ parsed = NoneF
    /\ calls = 1
    /\ first_outcome = NoOutcome
    /\ given_products = <<>>
    /\ IdleRest

fallback_vars ==
    <<products, user_credit_cards, idx, results, error, price_str, parsed, call_vars>>

CrawlFails_Break(kind) ==
    /\ pc = "platforms"
    /\ platform_idx <= Len(Platforms)
    /\ attempts' = [attempts EXCEPT ![platform_idx] = @ + 1]
    /\ crawled' = [crawled EXCEPT ![platform_idx] = Crawl(kind, <<>>, FALSE)]
    /\ platform_idx' = Len(Platforms) + 1
    /\ UNCHANGED <<max_products_per_platform, max_detail_pages, item_idx, count, listings,
                   processed_urls, detailed_products, fetches, pc, fallback_vars, rest_vars>>

\* line 159, and the crawl fails: nothing is added and the loop goes on to
\* the next platform
CrawlFails(kind) ==
    /\ pc = "platforms"
    /\ platform_idx <= Len(Platforms)
    /\ attempts' = [attempts EXCEPT ![platform_idx] = @ + 1]
    /\ crawled' = [crawled EXCEPT ![platform_idx] = Crawl(kind, <<>>, FALSE)]
    /\ platform_idx' = platform_idx + 1
    /\ UNCHANGED <<max_products_per_platform, max_detail_pages, item_idx, count, listings,
                   processed_urls, detailed_products, fetches, pc, fallback_vars, rest_vars>>

\* lines 159-172: the crawl succeeds and raw_data is decoded
CrawlSucceeds(raw_data) ==
    /\ pc = "platforms"
    /\ platform_idx <= Len(Platforms)
    /\ attempts' = [attempts EXCEPT ![platform_idx] = @ + 1]
    /\ crawled' = [crawled EXCEPT ![platform_idx] = Crawl("ok", raw_data, FALSE)]
    /\ item_idx' = 1
    /\ count' = 0
    /\ pc' = "items"
    /\ UNCHANGED <<max_products_per_platform, max_detail_pages, platform_idx, listings,
                   processed_urls, detailed_products, fetches, fallback_vars, rest_vars>>

InItems_NoLimit ==
    /\ pc = "items"
    /\ item_idx <= Len(crawled[platform_idx].raw_data)

\* the item the loop over raw_data is at
InItems ==
    /\ pc = "items"
    /\ item_idx <= Len(crawled[platform_idx].raw_data)
    /\ count < max_products_per_platform

CurrentStep ==
    item_step(crawled[platform_idx].raw_data[item_idx], Platforms[platform_idx],
              processed_urls)

\* the loop body ends in `continue` (lines 180, 197, 205)
SkipItem ==
    /\ InItems
    /\ CurrentStep.kind = "skip"
    /\ item_idx' = item_idx + 1
    /\ UNCHANGED <<max_products_per_platform, max_detail_pages, platform_idx, crawled, count,
                   listings, processed_urls, attempts, detailed_products, fetches, pc,
                   fallback_vars, rest_vars>>

\* lines 207-218
AddListing ==
    /\ InItems
    /\ CurrentStep.kind = "add"
    /\ processed_urls' = processed_urls \cup {CurrentStep.listing.url}
    /\ listings' = Append(listings, CurrentStep.listing)
    /\ count' = count + 1
    /\ item_idx' = item_idx + 1
    /\ UNCHANGED <<max_products_per_platform, max_detail_pages, platform_idx, crawled,
                   attempts, detailed_products, fetches, pc, fallback_vars, rest_vars>>

\* the loop body raises: lines 230-234 catch it and go on to the next platform
ItemRaises ==
    /\ InItems
    /\ CurrentStep.kind = "raise"
    /\ crawled' = [crawled EXCEPT ![platform_idx].aborted = TRUE]
    /\ platform_idx' = platform_idx + 1
    /\ pc' = "platforms"
    /\ UNCHANGED <<max_products_per_platform, max_detail_pages, item_idx, count, listings,
                   processed_urls, attempts, detailed_products, fetches, fallback_vars, rest_vars>>

\* the loop over raw_data ends: no item is left, or `break` at line 175
EndItems ==
    /\ pc = "items"
    /\ \/ item_idx > Len(crawled[platform_idx].raw_data)
       \/ count >= max_products_per_platform
    /\ platform_idx' = platform_idx + 1
    /\ pc' = "platforms"
    /\ UNCHANGED <<max_products_per_platform, max_detail_pages, crawled, item_idx, count,
                   listings, processed_urls, attempts, detailed_products, fetches,
                   fallback_vars, rest_vars>>

\* line 243 returns the listings to run_product_pipeline, lines 249-261
ReturnListings ==
    /\ pc = "platforms"
    /\ platform_idx > Len(Platforms)
    /\ pc' = IF listings = <<>> THEN "no_listings" ELSE "details"
    /\ fetches' = [i \in 1..Len(listings) |-> 0]
    /\ UNCHANGED <<max_products_per_platform, max_detail_pages, platform_idx, crawled,
                   item_idx, count, listings, processed_urls, attempts, detailed_products,
                   fallback_vars, rest_vars>>

InDetails_NoLimit ==
    /\ pc = "details"
    /\ Len(detailed_products) < Len(listings)

\* processed_count is the length of detailed_products (lines 280-281)
InDetails ==
    /\ pc = "details"
    /\ Len(detailed_products) < Len(listings)
    /\ Len(detailed_products) < max_detail_pages

\* lines 263-281: the detail fetch of the next listing
FetchDetail(api_key, answer) ==
    /\ InDetails
    /\ fetches' = [fetches EXCEPT ![Len(detailed_products) + 1] = @ + 1]
    /\ detailed_products' =
           Append(detailed_products,
                  [listing_info |-> listings[Len(detailed_products) + 1],
                   detailed_info |->
                       scrape_product_details(listings[Len(detailed_products) + 1].url,
                                              api_key, answer)])
    /\ UNCHANGED <<max_products_per_platform, max_detail_pages, platform_idx, crawled,
                   item_idx, count, listings, processed_urls, attempts, pc, fallback_vars,
                   rest_vars>>

\* lines 264-265 and 284-291: the loop over listings ends and the pipeline returns
ReturnPipeline ==
    /\ pc = "details"
    /\ \/ Len(detailed_products) >= Len(listings)
       \/ Len(detailed_products) >= max_detail_pages
    /\ pc' = "done"
    /\ UNCHANGED <<scrape_vars, fallback_vars, rest_vars>>

\* what run_product_pipeline returns: line 253 when there is no listing,
\* lines 284-291 otherwise
final_result ==
    IF pc = "no_listings"
    THEN [error |-> ErrorNoListings, total_listings_found |-> 0,
          detailed_products_processed |-> 0, products |-> <<>>]
    ELSE [error |-> <<>>, total_listings_found |-> Len(listings),
          detailed_products_processed |-> Len(detailed_products),
          products |-> detailed_products]

NextScrape ==
    \/ \E kind \in CrawlFailures : CrawlFails(kind)
    \/ \E raw_data \in RawSamples(platform_idx) : CrawlSucceeds(raw_data)
    \/ SkipItem
    \/ AddListing
    \/ ItemRaises
    \/ EndItems
    \/ ReturnListings
    \/ \E api_key \in BOOLEAN, answer \in DetailAnswers : FetchDetail(api_key, answer)
    \/ ReturnPipeline

SpecScrape == InitScrape /\ [][NextScrape]_vars

(***************************************************************************)
(* Sample texts of the requests                                            *)
(***************************************************************************)
\* "iPhone 15 128GB"
QueryIPhone ==
    <<"i", "P", "h", "o", "n", "e", " ", "1", "5", " ", "1", "2", "8", "G", "B">>

\* "Galaxy S24"
QueryGalaxy ==
    <<"G", "a", "l", "a", "x", "y", " ", "S", "2", "4">>

\* " TV "
QueryPadded ==
    <<" ", "T", "V", " ">>

\* "  "
QueryBlank ==
    <<" ", " ">>

\* "a"
QueryShort ==
    <<"a">>

\* " "
CardBlank ==
    <<" ">>

\* " SBI Card "
CardPadded ==
    <<" ", "S", "B", "I", " ", "C", "a", "r", "d", " ">>

(***************************************************************************)
(* api.PriceAnalysisRequest: validation of the request body                *)
(***************************************************************************)
\* the max_products_per_platform key of the body: absent, null or an integer
MaxAbsent == [kind |-> "absent", val |-> 0]
MaxNull == [kind |-> "null", val |-> 0]
MaxInt(n) == [kind |-> "int", val |-> n]

Body(product_query, cards, max_count) ==
    [product_query |-> product_query, user_credit_cards |-> cards,
     max_products_per_platform |-> max_count]

Invalid == [ok |-> FALSE, value |-> <<>>]
Valid(value) == [ok |-> TRUE, value |-> value]

\* line 74 and validate_product_query: the length is checked on the text as
\* sent, then the validator strips it
validate_product_query(v) ==
    IF Len(v) < 2 \/ Len(v) > 200 THEN Invalid
    ELSE IF strip(v) = <<>> THEN Invalid
    ELSE Valid(strip(v))

\* [card.strip() for card in v if card.strip()]
NotBlank(card) == strip(card) /= <<>>

strip_each(v) == [k \in 1..Len(v) |-> strip(v[k])]

strip_cards(v) == strip_each(SelectSeq(v, NotBlank))

\* line 75 and validate_credit_cards: the number of items is checked on the
\* list as sent, then the validator drops the blank entries and strips the rest
validate_credit_cards(v) ==
    IF Len(v) < 1 \/ Len(v) > 20 THEN Invalid
    ELSE IF v = <<>> THEN Invalid
    ELSE Valid(strip_cards(v))

\* line 76: Optional[int] = Field(5, ge=1, le=20): the default when the key is
\* absent, None when it is null, an integer within 1..20
validate_max_products(m) ==
    CASE m.kind = "absent" -> Valid(SomeF(5))
      [] m.kind = "null" -> Valid(NoneF)
      [] OTHER -> IF m.val >= 1 /\ m.val <= 20 THEN Valid(SomeF(m.val)) ELSE Invalid

\* PriceAnalysisRequest(**body)
PriceAnalysisRequest(body) ==
    IF /\ validate_product_query(body.product_query).ok
       /\ validate_credit_cards(body.user_credit_cards).ok
       /\ validate_max_products(body.max_products_per_platform).ok
    THEN Valid(Body(validate_product_query(body.product_query).value,
                    validate_credit_cards(body.user_credit_cards).value,
                    validate_max_products(body.max_products_per_platform).value))
    ELSE Invalid

(***************************************************************************)
(* ai.analyze_product_prices                                               *)
(***************************************************************************)
\* Python values, as json.loads returns them
PyNone == [type |-> "NoneType"]
PyInt == [type |-> "int"]
PyStr(text) == [type |-> "str", text |-> text]
PyList(items) == [type |-> "list", items |-> items]
\* a dict: its keys, and the value of its 'products' key when it has one
PyDict(keys, products_value) ==
    [type |-> "dict", keys |-> keys, products |-> products_value]

\* one analysed product, as the prompt asks for it
AnalysedProduct == PyDict({"product_title", "effective_price"}, PyNone)

\* response.text: text json.loads rejects, or text json.loads accepts with the
\* value it returns; or generate_content raises
ReplyInvalid == [kind |-> "invalid", value |-> PyNone]
ReplyJson(value) == [kind |-> "json", value |-> value]
ReplyRaises == [kind |-> "raises", value |-> PyNone]

\* SmartPriceCalculator.safe_json_parse
safe_json_parse(raw_text) ==
    IF raw_text.kind = "json" THEN raw_text.value ELSE PyDict({"error"}, PyNone)

\* line 248: scraper_results is written in the source; the call of the
\* scraper (line 247) is commented out
scraper_results_literal ==
    [query |-> QueryIPhone, total_listings_found |-> 9, detailed_products_processed |-> 9]

\* lines 252-257
wrap_result(r) ==
    IF r.type = "list" THEN PyDict({"products"}, r)
    ELSE IF r.type = "dict" /\ "products" \in r.keys THEN r
    ELSE PyDict({"products"}, PyList(<<>>))

\* analyze_product_prices(product_query, user_credit_cards,
\* max_products_per_platform), given what the model answers
analyze_product_prices(product_query, cards, max_count, reply) ==
    IF reply.kind = "raises"
    THEN [exc |-> "ClientError", scraper_results |-> scraper_results_literal,
          value |-> PyNone]
    ELSE [exc |-> "none", scraper_results |-> scraper_results_literal,
          value |-> wrap_result(safe_json_parse(reply))]

(***************************************************************************)
(* api.analyze_prices                                                      *)
(***************************************************************************)
\* min(request.max_products_per_platform, 10): None is not ordered with 10
capped_max_products(m) ==
    IF ~m.some THEN [exc |-> "TypeError", value |-> 0]
    ELSE [exc |-> "none", value |-> Min({m.val, 10})]

NoCall == [called |-> FALSE, product_query |-> <<>>, user_credit_cards |-> <<>>,
           max_products_per_platform |-> 0]

Call(product_query, cards, max_count) ==
    [called |-> TRUE, product_query |-> product_query, user_credit_cards |-> cards,
     max_products_per_platform |-> max_count]

\* line 137
is_valid_result(r) == r.type = "dict" /\ "products" \in r.keys

\* len(result.get('products', []))
len_products(p) ==
    CASE p.type = "list" -> [exc |-> "none", value |-> Len(p.items)]
      [] p.type = "str" -> [exc |-> "none", value |-> Len(p.text)]
      [] p.type = "dict" -> [exc |-> "none", value |-> Cardinality(p.keys)]
      [] OTHER -> [exc |-> "TypeError", value |-> 0]

\* products: List[Dict[str, Any]]
is_list_of_dicts(p) ==
    p.type = "list" /\ \A k \in 1..Len(p.items) : p.items[k].type = "dict"

NoDetail == [type |-> "NoneType"]

\* the detail of line 140, a text
TextDetail(rid) == [type |-> "str", request_id |-> rid]

\* the detail of lines 160-165
ObjectDetail(message, rid) ==
    [type |-> "dict", keys |-> {"error", "message", "timestamp", "request_id"},
     error |-> "Analysis Failed", message |-> message, request_id |-> rid]

Raised(exc, status_code, detail) ==
    [kind |-> exc, status_code |-> status_code, products |-> PyNone, total_products |-> 0,
     query |-> <<>>, detail |-> detail]

\* PriceAnalysisResponse(**enhanced_result)
PriceAnalysisResponse(products_value, total_products, query) ==
    [kind |-> "PriceAnalysisResponse", status_code |-> 200, products |-> products_value,
     total_products |-> total_products, query |-> query, detail |-> NoDetail]

\* lines 137-152, for a result the engine returned: the response, or the
\* exception raised inside the try block
build_response(r, query, rid) ==
    IF ~is_valid_result(r) THEN Raised("HTTPException", 500, TextDetail(rid))
    ELSE IF len_products(r.products).exc /= "none"
    THEN Raised(len_products(r.products).exc, 0, NoDetail)
    ELSE IF ~is_list_of_dicts(r.products) THEN Raised("ValidationError", 0, NoDetail)
    ELSE PriceAnalysisResponse(r.products, len_products(r.products).value, query)

(***************************************************************************)
(* Specification of POST /analyze-prices: one request                      *)
(***************************************************************************)
Queries == {QueryIPhone, QueryGalaxy, QueryPadded, QueryBlank, QueryShort}

CardBodies ==
    { <<>>, <<CardHdfcMillennia>>, <<CardBlank>>, <<CardPadded, CardBlank>> }

MaxBodies == {MaxAbsent, MaxNull} \cup {MaxInt(n) : n \in {0, 1, 7, 10, 15, 20, 21}}

Bodies ==
    {Body(q, c, m) : q \in Queries, c \in CardBodies, m \in MaxBodies}

Replies ==
    { ReplyInvalid, ReplyRaises,
      ReplyJson(PyList(<<>>)),
      ReplyJson(PyList(<<AnalysedProduct, AnalysedProduct>>)),
      ReplyJson(PyList(<<AnalysedProduct, PyInt>>)),
      ReplyJson(PyDict({"products"}, PyList(<<AnalysedProduct>>))),
      ReplyJson(PyDict({"products"}, PyNone)),
      ReplyJson(PyDict({"products"}, PyStr(<<"n", "/", "a">>))),
      ReplyJson(PyDict({"error"}, PyNone)),
      ReplyJson(PyStr(<<"o", "k">>)),
      ReplyJson(PyInt),
      ReplyJson(PyNone) }

RequestIds == 1..MaxRequestId

InitApi ==
    /\ request \in Bodies
    /\ validated = Invalid
    /\ request_id = 0
    /\ engine_args = NoCall
    /\ scraper_results = <<>>
    /\ model_reply = ReplyInvalid
    /\ result = PyNone
    /\ response = Raised("none", 0, NoDetail)
    /\ pc = "request"
    /\ IdleFallback
    /\ IdleScrape
    /\ crew_result = <<>>
    /\ IdleTool
    /\ IdleFetch

api_unchanged == <<products, user_credit_cards, idx, results, error, price_str, parsed,
                   call_vars, scrape_vars, crew_result, tool_vars,
                   fetch_vars>>

\* FastAPI makes the PriceAnalysisRequest of the body; a body that fails
\* validation is answered 422 and the handler is not called
ValidateRequest ==
    /\ pc = "request"
    /\ validated' = PriceAnalysisRequest(request)
    /\ pc' = IF PriceAnalysisRequest(request).ok THEN "handler" ELSE "rejected"
    /\ response' = IF PriceAnalysisRequest(request).ok THEN response
                   ELSE Raised("RequestValidationError", 422, NoDetail)
    /\ UNCHANGED <<request, request_id, engine_args, scraper_results,
                   model_reply, result, api_unchanged>>

\* lines 128-135: min(...) raises
CapRaises(rid) ==
    /\ pc = "handler"
    /\ capped_max_products(validated.value.max_products_per_platform).exc /= "none"
    /\ request_id' = rid
    /\ response' = Raised(capped_max_products(validated.value.max_products_per_platform).exc,
                          0, NoDetail)
    /\ pc' = "except"
    /\ UNCHANGED <<request, validated, engine_args, scraper_results,
                   model_reply, result, api_unchanged>>

\* the outcome of the call of lines 131-135
EngineOutcome(reply) ==
    analyze_product_prices(validated.value.product_query, validated.value.user_credit_cards,
                           capped_max_products(
                               validated.value.max_products_per_platform).value,
                           reply)

\* lines 128-135: the engine is called, and returns or raises
CallEngine(rid, reply) ==
    /\ pc = "handler"
    /\ capped_max_products(validated.value.max_products_per_platform).exc = "none"
    /\ request_id' = rid
    /\ engine_args' = Call(validated.value.product_query, validated.value.user_credit_cards,
                           capped_max_products(
                               validated.value.max_products_per_platform).value)
    /\ scraper_results' = EngineOutcome(reply).scraper_results
    /\ model_reply' = reply
    /\ result' = EngineOutcome(reply).value
    /\ response' = IF EngineOutcome(reply).exc = "none" THEN response
                   ELSE Raised(EngineOutcome(reply).exc, 0, NoDetail)
    /\ pc' = IF EngineOutcome(reply).exc = "none" THEN "result" ELSE "except"
    /\ UNCHANGED <<request, validated, api_unchanged>>

\* lines 137-152
BuildResponse ==
    /\ pc = "result"
    /\ response' = build_response(result, validated.value.product_query, request_id)
    /\ pc' = IF build_response(result, validated.value.product_query, request_id).kind
                    = "PriceAnalysisResponse"
             THEN "responded" ELSE "except"
    /\ UNCHANGED <<request, validated, request_id, engine_args, scraper_results,
                   model_reply, result,
                   api_unchanged>>

RaiseHTTPException_Reraise ==
    /\ pc = "except"
    /\ pc' = "raised"
    /\ UNCHANGED <<request, validated, request_id, engine_args, scraper_results,
                   model_reply, result,
                   response, api_unchanged>>

\* lines 154-166: except Exception
RaiseHTTPException ==
    /\ pc = "except"
    /\ response' = Raised("HTTPException", 500, ObjectDetail(response.kind, request_id))
    /\ pc' = "raised"
    /\ UNCHANGED <<request, validated, request_id, engine_args, scraper_results,
                   model_reply, result,
                   api_unchanged>>

NextApi ==
    \/ ValidateRequest
    \/ \E rid \in RequestIds : CapRaises(rid)
    \/ \E rid \in RequestIds, reply \in Replies : CallEngine(rid, reply)
    \/ BuildResponse
    \/ RaiseHTTPException

SpecApi == InitApi /\ [][NextApi]_vars

(***************************************************************************)
(* analysis.analyze_discounts_with_crewai                                  *)
(***************************************************************************)
\* what crew.kickoff() does: it raises, or it returns an empty result, text
\* json.loads rejects, or text json.loads accepts with the value it returns
KickoffRaises == [kind |-> "raises", value |-> PyNone]
KickoffEmpty == [kind |-> "empty", value |-> PyNone]
KickoffInvalid == [kind |-> "invalid", value |-> PyNone]
KickoffJson(value) == [kind |-> "json", value |-> value]

\* lines 52-66: the return value of analyze_discounts_with_crewai
crew_return(kickoff) ==
    IF kickoff.kind = "json" /\ kickoff.value.type = "list"
    THEN kickoff.value.items
    ELSE <<>>

Kickoffs ==
    { KickoffRaises, KickoffEmpty, KickoffInvalid,
      KickoffJson(PyDict({"error"}, PyNone)),
      KickoffJson(PyList(<<>>)),
      KickoffJson(PyList(<<AnalysedProduct>>)) }

(***************************************************************************)
(* Specification of analyze_discounts_with_crewai: one call                *)
(***************************************************************************)
InitCrew ==
    /\ products \in {WithUrls(b) : b \in Batches}
    /\ user_credit_cards \in CardLists
    /\ idx = 1
    /\ results = <<>>
    /\ pc = "crew"
    /\ error = "none"
    /\ price_str = <<>>
    /\ parsed = NoneF
    /\ calls = 1
    /\ first_outcome = NoOutcome
    /\ given_products = products
    /\ crew_result = KickoffEmpty
    /\ IdleScrape
    /\ IdleApi
    /\ IdleTool
    /\ IdleFetch

crew_unchanged ==
    <<products, user_credit_cards, idx, error, price_str, parsed, call_vars, scrape_vars,
      api_vars, tool_vars, fetch_vars>>

\* lines 14-15: no product, nothing to analyse
ReturnNoProducts ==
    /\ pc = "crew"
    /\ products = <<>>
    /\ results' = <<>>
    /\ pc' = "crew_returned"
    /\ UNCHANGED <<crew_result, crew_unchanged>>

\* lines 17-66: the crew is run and its result returned, or [] when it
\* raised, gave nothing, or gave something that is not a JSON list
AnalyzeWithCrew(kickoff) ==
    /\ pc = "crew"
    /\ products /= <<>>
    /\ crew_result' = kickoff
    /\ results' = crew_return(kickoff)
    /\ pc' = "crew_returned"
    /\ UNCHANGED crew_unchanged

NextCrew ==
    \/ ReturnNoProducts
    \/ \E kickoff \in Kickoffs : AnalyzeWithCrew(kickoff)

SpecCrew == InitCrew /\ [][NextCrew]_vars

(***************************************************************************)
(* new.FirecrawlScrapingTool                                               *)
(***************************************************************************)
\* what self.client.scrape_url(url, params=params) does: it raises, or it
\* returns a dict, with or without a true 'success'
FirecrawlRaises == [kind |-> "raises", success |-> FALSE, markdown |-> "", error |-> ""]
FirecrawlPage == [kind |-> "dict", success |-> TRUE, markdown |-> "# page", error |-> ""]
FirecrawlBare == [kind |-> "dict", success |-> TRUE, markdown |-> "", error |-> ""]
FirecrawlRefused ==
    [kind |-> "dict", success |-> FALSE, markdown |-> "", error |-> "blocked"]

FirecrawlResults == {FirecrawlRaises, FirecrawlPage, FirecrawlBare, FirecrawlRefused}

NoFirecrawl == [kind |-> "none", success |-> FALSE, markdown |-> "", error |-> ""]

\* what requests.get and response.raise_for_status do: a page comes, with or
\* without a <title>, or one of the two raises
HttpPage == [kind |-> "page", text |-> "page text", title |-> "Apple iPhone 15", error |-> ""]
HttpUntitled == [kind |-> "page", text |-> "page text", title |-> "", error |-> ""]
HttpConnectionError ==
    [kind |-> "raises", text |-> "", title |-> "", error |-> "Connection refused"]
HttpStatusError ==
    [kind |-> "raises", text |-> "", title |-> "", error |-> "404 Client Error"]
HttpMissingSchema ==
    [kind |-> "raises", text |-> "", title |-> "", error |-> "Invalid URL: No scheme supplied"]

\* requests accepts a url with a scheme only
HttpResults(url) ==
    IF StartsWith(url, HttpPrefix)
    THEN {HttpPage, HttpUntitled, HttpConnectionError, HttpStatusError}
    ELSE {HttpMissingSchema}

NoHttp == [kind |-> "none", text |-> "", title |-> "", error |-> ""]

\* json.dumps of a dict: the keys of the object, and the values of its url,
\* content and error keys
JsonObject(keys, url, content, error_text) ==
    [type |-> "json", keys |-> keys, url |-> url, content |-> content,
     error |-> error_text]

NoOutput == [type |-> "none", keys |-> {}, url |-> <<>>, content |-> "", error |-> ""]

\* lines 107-113
firecrawl_output(url, r) ==
    JsonObject({"url", "content", "html", "extracted_data", "metadata"}, url, r.markdown, "")

\* lines 141-165
fallback_output(url, h) ==
    IF h.kind = "page"
    THEN JsonObject({"url", "content", "html", "title", "metadata"}, url, h.text, "")
    ELSE JsonObject({"url", "error", "content"}, url, "", h.error)

ToolUrls == {UrlAmazonAbs, UrlFlipkartAbs, UrlElsewhere, UrlAmazonRel}

(***************************************************************************)
(* Specification of FirecrawlScrapingTool._run: one call                   *)
(***************************************************************************)
InitTool ==
    /\ tool_url \in ToolUrls
    /\ extract_schema \in BOOLEAN
    /\ client \in BOOLEAN
    /\ firecrawl_result = NoFirecrawl
    /\ http_result = NoHttp
    /\ fallback_calls = 0
    /\ tool_output = NoOutput
    /\ pc = "_run"
    /\ crew_result = <<>>
    /\ IdleFallback
    /\ IdleScrape
    /\ IdleApi
    /\ IdleFetch

tool_unchanged ==
    <<products, user_credit_cards, idx, results, price_str, parsed, call_vars, scrape_vars,
      api_vars, crew_result, fetch_vars, tool_url, extract_schema, client>>

\* lines 117-118: no client, the fallback is called
RunWithoutClient ==
    /\ pc = "_run"
    /\ ~client
    /\ fallback_calls' = fallback_calls + 1
    /\ pc' = "_fallback_scrape"
    /\ UNCHANGED <<firecrawl_result, http_result, tool_output, error, tool_unchanged>>

\* lines 93-113: Firecrawl gives the page and it is returned
FirecrawlSucceeds(r) ==
    /\ pc = "_run"
    /\ client
    /\ r.kind = "dict" /\ r.success
    /\ firecrawl_result' = r
    /\ tool_output' = firecrawl_output(tool_url, r)
    /\ pc' = "returned"
    /\ UNCHANGED <<http_result, fallback_calls, error, tool_unchanged>>

FirecrawlFails_Escapes(r) ==
    /\ pc = "_run"
    /\ client
    /\ ~(r.kind = "dict" /\ r.success)
    /\ firecrawl_result' = r
    /\ IF r.kind = "raises"
       THEN pc' = "raised" /\ error' = "Exception" /\ UNCHANGED fallback_calls
       ELSE pc' = "_fallback_scrape" /\ fallback_calls' = fallback_calls + 1
                /\ UNCHANGED error
    /\ UNCHANGED <<http_result, tool_output, tool_unchanged>>

\* lines 114-116 and 120-122: Firecrawl reports no success, or the call
\* raises; the fallback is called
FirecrawlFails(r) ==
    /\ pc = "_run"
    /\ client
    /\ ~(r.kind = "dict" /\ r.success)
    /\ firecrawl_result' = r
    /\ fallback_calls' = fallback_calls + 1
    /\ pc' = "_fallback_scrape"
    /\ UNCHANGED <<http_result, tool_output, error, tool_unchanged>>

\* lines 124-165: _fallback_scrape returns, and _run returns what it gave
FallbackScrape(h) ==
    /\ pc = "_fallback_scrape"
    /\ http_result' = h
    /\ tool_output' = fallback_output(tool_url, h)
    /\ pc' = "returned"
    /\ UNCHANGED <<firecrawl_result, fallback_calls, error, tool_unchanged>>

NextTool ==
    \/ RunWithoutClient
    \/ \E r \in FirecrawlResults : FirecrawlSucceeds(r)
    \/ \E r \in FirecrawlResults : FirecrawlFails(r)
    \/ \E h \in HttpResults(tool_url) : FallbackScrape(h)

SpecTool == InitTool /\ [][NextTool]_vars

(***************************************************************************)
(* utils.safe_json_parse, utils.normalize_url,                             *)
(* scraping.fetch_product_listings                                         *)
(***************************************************************************)
\* what Crawl4AIScraperTool._arun returns: text json.loads rejects, or text
\* json.loads accepts with the value it returns
OutputInvalid == [kind |-> "invalid", value |-> PyNone]
OutputJson(value) == [kind |-> "json", value |-> value]

\* utils.safe_json_parse, for a str
utils_safe_json_parse(json_str) ==
    IF json_str.kind = "json" THEN json_str.value ELSE PyDict({"error"}, PyNone)

\* a dict of the list: one search result
ListingDict(title, url, asin_direct, price) ==
    [type |-> "dict", title |-> title, url |-> url, asin_direct |-> asin_direct,
     price |-> price, rating |-> Absent]

ErrorWord == <<"e", "r", "r", "o", "r">>

\* "error" in parsed_data, for a list
list_has_error(items) ==
    \E k \in 1..Len(items) : items[k].type = "str" /\ items[k].text = ErrorWord

\* line 68
is_rejected(data) == IF data.type = "list" THEN list_has_error(data.items) ELSE TRUE

\* the truth value of item.get(key)
IsTruthy(field) == field.kind = "text" /\ field.text /= <<>>

\* normalize_url, lines 47-56: the ASIN of the url, replaced by asin_direct
\* when there is one
final_asin(item) ==
    IF IsTruthy(item.asin_direct) THEN strip(item.asin_direct.text)
    ELSE IF IsTruthy(item.url) /\ asin_match(item.url.text).found
    THEN asin_match(item.url.text).asin
    ELSE <<>>

\* utils.normalize_url: ok is FALSE when it returns None
normalize_url(platform, item) ==
    IF platform.name = PlatformAmazon
    THEN IF final_asin(item) /= <<>>
         THEN [ok |-> TRUE, url |-> platform.base_url \o DpMark \o final_asin(item)]
         ELSE NoUrl
    ELSE IF IsTruthy(item.url)
    THEN [ok |-> TRUE, url |-> with_base(strip(item.url.text), platform.base_url)]
    ELSE NoUrl

\* lines 81-87: ProductListing(...)
ProductListing(item, platform, url) ==
    [title |-> strip(item.title.text),
     price_str |-> IF item.price.kind = "absent" THEN Text(<<"N", "/", "A">>) ELSE item.price,
     rating_str |-> get_or_none(item.rating),
     url |-> url,
     platform |-> capitalize(platform.name)]

\* lines 76-88, for one item of the list: "skip" (continue, or no url),
\* "add" (listings.append) or "raise" (price_str: str refuses None)
fetch_step(item, platform) ==
    IF item.type /= "dict" THEN [kind |-> "skip", listing |-> NoListing]
    ELSE IF ~IsTruthy(item.title) THEN [kind |-> "skip", listing |-> NoListing]
    ELSE IF ~normalize_url(platform, item).ok THEN [kind |-> "skip", listing |-> NoListing]
    ELSE IF item.price.kind = "null" THEN [kind |-> "raise", listing |-> NoListing]
    ELSE [kind |-> "add",
          listing |-> ProductListing(item, platform, normalize_url(platform, item).url)]

FetchOutputs ==
    { OutputInvalid,
      OutputJson(PyDict({"error", "url"}, PyNone)),
      OutputJson(PyDict({}, PyNone)),
      OutputJson(PyInt),
      OutputJson(PyNone),
      OutputJson(PyStr(ErrorWord)),
      OutputJson(PyList(<<ListingDict(Text(TitleBlue), Text(UrlFlipkartRel), Absent, Absent)>>)),
      OutputJson(PyList(<<>>)),
      OutputJson(PyList(<<PyStr(ErrorWord)>>)),
      OutputJson(PyList(
          <<ListingDict(Text(TitleBlue), Text(UrlAmazonRel), Absent, Price60300),
            PyInt,
            ListingDict(Text(TitlePink), Text(UrlFlipkartRel), Text(AsinDirect), Absent),
            ListingDict(Text(TitlePink), Text(UrlAmazonOther), Absent, Price60300)>>)),
      OutputJson(PyList(
          <<ListingDict(Absent, Text(UrlAmazonRel), Absent, Price60300),
            ListingDict(Text(TitleBlank), Text(UrlFlipkartAbs), Text(AsinDirect), Price60300),
            ListingDict(Text(TitleBlue), Null, Absent, Price60300)>>)),
      OutputJson(PyList(
          <<ListingDict(Text(TitleBlue), Text(UrlFlipkartAbs), Text(AsinDirect), Null),
            ListingDict(Text(TitlePink), Text(UrlAmazonRel), Absent, Price60300)>>)) }

(***************************************************************************)
(* Specification of fetch_product_listings: one call                       *)
(***************************************************************************)
InitFetch ==
    /\ platform_name \in PlatformIndexes
    /\ max_products \in 1..MaxPerPlatform
    /\ raw_data_str = OutputInvalid
    /\ parsed_data = PyNone
    /\ listings = <<>>
    /\ item_idx = 0
    /\ pc = "fetch"
    /\ max_products_per_platform = 0
    /\ max_detail_pages = 0
    /\ platform_idx = 0
    /\ crawled = <<>>
    /\ count = 0
    /\ processed_urls = {}
    /\ attempts = <<>>
    /\ detailed_products = <<>>
    /\ fetches = <<>>
    /\ crew_result = <<>>
    /\ IdleFallback
    /\ IdleApi
    /\ IdleTool

fetch_unchanged ==
    <<products, user_credit_cards, idx, results, price_str, parsed, call_vars,
      max_products_per_platform, max_detail_pages, platform_idx, crawled, count,
      processed_urls, attempts, detailed_products, fetches, api_vars, crew_result,
      tool_vars, platform_name, max_products>>

\* lines 56-66: the search page is scraped and the output parsed
ScrapeAndParse(output) ==
    /\ pc = "fetch"
    /\ raw_data_str' = output
    /\ parsed_data' = utils_safe_json_parse(output)
    /\ pc' = "parsed"
    /\ UNCHANGED <<listings, item_idx, error, fetch_unchanged>>

\* lines 68-70: the output is no list of listings; the log line calls
\* parsed_data.get, which only a dict has
RejectOutput ==
    /\ pc = "parsed"
    /\ is_rejected(parsed_data)
    /\ IF parsed_data.type = "dict"
       THEN pc' = "returned" /\ UNCHANGED error
       ELSE pc' = "raised" /\ error' = "AttributeError"
    /\ UNCHANGED <<listings, item_idx, raw_data_str, parsed_data, fetch_unchanged>>

\* lines 72-73: the loop over parsed_data begins
AcceptOutput ==
    /\ pc = "parsed"
    /\ ~is_rejected(parsed_data)
    /\ item_idx' = 1
    /\ pc' = "items"
    /\ UNCHANGED <<listings, error, raw_data_str, parsed_data, fetch_unchanged>>

\* the item the loop over parsed_data is at
AtItem ==
    /\ pc = "items"
    /\ item_idx <= Len(parsed_data.items)
    /\ Len(listings) < max_products

\* `continue` at line 77, or normalize_url gave no url
FetchSkip ==
    /\ AtItem
    /\ fetch_step(parsed_data.items[item_idx], Platforms[platform_name]).kind = "skip"
    /\ item_idx' = item_idx + 1
    /\ UNCHANGED <<listings, pc, error, raw_data_str, parsed_data, fetch_unchanged>>

\* lines 80-88
FetchAdd ==
    /\ AtItem
    /\ fetch_step(parsed_data.items[item_idx], Platforms[platform_name]).kind = "add"
    /\ listings' =
           Append(listings,
                  fetch_step(parsed_data.items[item_idx], Platforms[platform_name]).listing)
    /\ item_idx' = item_idx + 1
    /\ UNCHANGED <<pc, error, raw_data_str, parsed_data, fetch_unchanged>>

\* ProductListing(...) raises
FetchRaise ==
    /\ AtItem
    /\ fetch_step(parsed_data.items[item_idx], Platforms[platform_name]).kind = "raise"
    /\ error' = "ValidationError"
    /\ pc' = "raised"
    /\ UNCHANGED <<listings, item_idx, raw_data_str, parsed_data, fetch_unchanged>>

\* lines 74-75 and 90
FetchReturn ==
    /\ pc = "items"
    /\ \/ item_idx > Len(parsed_data.items)
       \/ Len(listings) >= max_products
    /\ pc' = "returned"
    /\ UNCHANGED <<listings, item_idx, error, raw_data_str, parsed_data, fetch_unchanged>>

NextFetch ==
    \/ \E output \in FetchOutputs : ScrapeAndParse(output)
    \/ RejectOutput
    \/ AcceptOutput
    \/ FetchSkip
    \/ FetchAdd
    \/ FetchRaise
    \/ FetchReturn

SpecFetch == InitFetch /\ [][NextFetch]_vars

(***************************************************************************)
(* Vocabulary of the properties                                            *)
(***************************************************************************)
ResultIndexes == 1..Len(results)
ProductIndexes == 1..Len(products)

\* the listing a result entry was priced from (urls are unique in a batch)
SourceOf(r) == products[CHOOSE i \in ProductIndexes : products[i].url = r.url]

HasEntry(i) == \E k \in ResultIndexes : results[k].url = products[i].url

\* listing i has been through the loop body, which ran to its end
Processed(i) == i < idx \/ pc = "returned"

DiscountOf(r) == r.original_price - r.effective_price

HasDigit(text) == \E k \in 1..Len(text) : IsDigit(text[k])

\* the listing has a price to work with: a preset original_price, or a price
\* text with a numeric run that is not zero
Usable(p) ==
    \/ p.original_price.some /\ p.original_price.val /= 0
    \/ HasDigit(p.price) /\ parse_price(p.price).val /= 0

\* the offers the loop would look at: the strings of the credit_card_offers
\* list, or the characters of a credit_card_offers string
OfferTextsOf(p) ==
    IF p.basic_details.kind = "json" /\ p.basic_details.value.type = "object"
       /\ p.basic_details.value.has_offers
    THEN LET o == p.basic_details.value.offers
         IN  IF o.type = "array"
             THEN {o.items[k].text : k \in {j \in 1..Len(o.items) : o.items[j].type = "string"}}
             ELSE IF o.type = "string" THEN {<<o.text[k]>> : k \in 1..Len(o.text)}
             ELSE {}
    ELSE {}

\* credit_card_offers is present and is neither a list nor a string
OffersNotIterable(p) ==
    /\ p.basic_details.kind = "json"
    /\ p.basic_details.value.type = "object"
    /\ p.basic_details.value.has_offers
    /\ p.basic_details.value.offers.type \in {"null", "number"}

Holds(card) == \E k \in 1..Len(user_credit_cards) : user_credit_cards[k] = card

TitleMatches(r) == r.title = QueryTitle

\* "Special Price"
SpecialPriceMark == SubSeq(OfferSpecialPrice, 1, 13)

\* "HDFC Bank", "Axis Bank"
BankNames == {SubSeq(OfferHdfcBank, 12, 20), SubSeq(OfferAxisCapped, 37, 45)}

\* the cap an offer text states ("capped at", "up to"); -1 when it states none
StatedCap(text) ==
    CASE text = OfferIciciCapped -> 1800 * Scale
      [] text = OfferAxisCapped -> 4000 * Scale
      [] OTHER -> -1

(***************************************************************************)
(* C1: every priced listing has 0 <= effective_price <= original_price.    *)
(***************************************************************************)
C1_EffectivePriceInRange ==
    \A k \in ResultIndexes :
        /\ 0 <= results[k].effective_price
        /\ results[k].effective_price <= results[k].original_price

(***************************************************************************)
(* C2: for a price text made of two currency-prefixed numeric runs with    *)
(* nothing between them, parse_price returns the first run.                *)
(***************************************************************************)
\* the position of the second currency sign of such a text, 0 for other texts
SecondRunAt(text) ==
    LET at == {j \in 3..(Len(text) - 1) :
                  /\ text[1] = Rupee
                  /\ text[j] = Rupee
                  /\ \A k \in 2..(j - 1) : IsDigit(text[k])
                  /\ \A k \in (j + 1)..Len(text) : IsDigit(text[k])}
    IN  IF at = {} THEN 0 ELSE Min(at)

C2_FirstRunIsPrice ==
    (pc = "parsed" /\ SecondRunAt(price_str) /= 0)
        => parsed = SomeF(DigitsVal(SubSeq(price_str, 2, SecondRunAt(price_str) - 1)) * Scale)

(***************************************************************************)
(* C3: a percentage offer that states a cap discounts                      *)
(* min(value/100 * original_price, cap).                                   *)
(***************************************************************************)
C3_PercentClippedToCap ==
    \A k \in ResultIndexes :
        LET r == results[k]
        IN  (percent_match(r.discount_applied).found /\ StatedCap(r.discount_applied) >= 0)
                => DiscountOf(r) <= StatedCap(r.discount_applied)

(***************************************************************************)
(* C4: a card that carries the bank name of an offer is matched to that    *)
(* offer, and the listing gets at least that offer's discount.             *)
(***************************************************************************)
C4_PartialBankNameMatch ==
    \A k \in ResultIndexes : \A c \in 1..Len(user_credit_cards) : \A bank \in BankNames :
        \A o \in OfferTextsOf(SourceOf(results[k])) :
            (/\ Contains(lower(bank), lower(user_credit_cards[c]))
             /\ Contains(lower(bank), lower(o))
             /\ percent_match(o).found)
                => DiscountOf(results[k])
                      >= percent_of(results[k].original_price, percent_match(o).value)

(***************************************************************************)
(* C5: a listing none of whose offers mentions a card of the user (or that *)
(* has no offers) is priced at its original price, with no discount, and   *)
(* pricing it raises nothing.                                              *)
(***************************************************************************)
NoCardMatches(p) ==
    /\ Usable(p)
    /\ ~OffersNotIterable(p)
    /\ \A o \in OfferTextsOf(p) : \A c \in 1..Len(user_credit_cards) :
           ~Contains(lower(user_credit_cards[c]), lower(o))

PricedUndiscounted(i) ==
    \E k \in ResultIndexes :
        /\ results[k].url = products[i].url
        /\ results[k].effective_price = results[k].original_price
        /\ results[k].original_price = resolve_original_price(products[i]).val
        /\ results[k].discount_applied = NoOfferText

C5_NoMatchNoDiscount ==
    \A i \in ProductIndexes :
        NoCardMatches(products[i])
            => /\ Processed(i) => PricedUndiscounted(i)
               /\ pc = "raised" => idx /= i

C5_Witness ==
    /\ pc = "returned"
    /\ user_credit_cards /= <<>>
    /\ \E i \in ProductIndexes :
           /\ NoCardMatches(products[i])
           /\ OfferTextsOf(products[i]) /= {}
           /\ PricedUndiscounted(i)

(***************************************************************************)
(* C6: an offer already applied to the displayed price ("Special Price")   *)
(* adds nothing: the Flipkart listing at 64,900 with a Special Price offer *)
(* and the 5% offer capped at 4,000, matched, is discounted by 3245.       *)
(***************************************************************************)
C6_AlreadyAppliedAddsNothing ==
    \A k \in ResultIndexes :
        LET p == SourceOf(results[k])
        IN  (/\ p.platform = "Flipkart"
             /\ results[k].original_price = 64900 * Scale
             /\ Holds(CardAxisFlipkart)
             /\ OfferAxisCapped \in OfferTextsOf(p)
             /\ \E o \in OfferTextsOf(p) : Contains(SpecialPriceMark, o))
                => DiscountOf(results[k]) = 3245 * Scale

(***************************************************************************)
(* C7: the returned list is in ascending order of effective_price among    *)
(* the listings whose title does not match the query.                      *)
(***************************************************************************)
C7_AscendingAmongNonMatching ==
    pc = "returned"
        => \A a, b \in ResultIndexes :
               (a < b /\ ~TitleMatches(results[a]) /\ ~TitleMatches(results[b]))
                   => results[a].effective_price <= results[b].effective_price

\* two such listings came in descending order and were returned in ascending order
C7_Witness ==
    /\ pc = "returned"
    /\ Len(results) >= 2
    /\ ~TitleMatches(results[1]) /\ ~TitleMatches(results[2])
    /\ results[1].effective_price < results[2].effective_price
    /\ results[1].url = products[2].url
    /\ results[2].url = products[1].url

(***************************************************************************)
(* C8: in the returned list a listing whose title matches the query comes  *)
(* before every listing whose title does not.                              *)
(***************************************************************************)
C8_TitleMatchFirst ==
    pc = "returned"
        => \A a, b \in ResultIndexes :
               a < b => ~(~TitleMatches(results[a]) /\ TitleMatches(results[b]))

C10_NeverAborts ==
    /\ pc /= "raised"
    /\ pc = "returned" => \A i \in ProductIndexes : Usable(products[i]) => HasEntry(i)

(***************************************************************************)
(* C11: a malformed offer is skipped on its own: the discount of the       *)
(* listing is the best discount among its well-formed matched offers,      *)
(* wherever the malformed offer sits in the list.                          *)
(***************************************************************************)
\* the offer texts of the listing that mention a card of the user and whose
\* discount can be computed
WellFormedMatched(p) ==
    {o \in OfferTextsOf(p) :
        /\ card_mentioned(o, user_credit_cards)
        /\ current_discount(o, resolve_original_price(p).val).exc = "none"}

\* the discounts of those offers on the listing
MatchedDiscounts(p) ==
    {current_discount(o, resolve_original_price(p).val).value : o \in WellFormedMatched(p)}

\* the listing has a list of offers with an element that is no text
HasMalformedOffer(p) ==
    /\ p.basic_details.kind = "json"
    /\ p.basic_details.value.type = "object"
    /\ p.basic_details.value.has_offers
    /\ p.basic_details.value.offers.type = "array"
    /\ \E k \in 1..Len(p.basic_details.value.offers.items) :
           p.basic_details.value.offers.items[k].type /= "string"

C11_MalformedOfferSkipped ==
    \A i \in ProductIndexes :
        (Processed(i) /\ Usable(products[i]) /\ HasMalformedOffer(products[i]))
            => \E k \in ResultIndexes :
                   /\ results[k].url = products[i].url
                   /\ DiscountOf(results[k]) = Max(MatchedDiscounts(products[i]) \cup {0})

(***************************************************************************)
(* C12: among the offers matched to the user's cards on a listing a single *)
(* best offer is applied: the discount is the maximum of the discounts of  *)
(* the matched offers, never their sum, and discount_applied names an      *)
(* offer that achieves it.                                                 *)
(***************************************************************************)
C12_SingleBestOffer ==
    \A k \in ResultIndexes :
        WellFormedMatched(SourceOf(results[k])) /= {}
            => /\ DiscountOf(results[k]) = Max(MatchedDiscounts(SourceOf(results[k])))
               /\ results[k].discount_applied \in WellFormedMatched(SourceOf(results[k]))
               /\ current_discount(results[k].discount_applied,
                                   results[k].original_price).value = DiscountOf(results[k])

(***************************************************************************)
(* C14: entries with equal effective_price and the same title-match status *)
(* are returned in the order their listings came in.                       *)
(***************************************************************************)
\* the position in the input of the listing an entry was priced from
IndexOf(r) == CHOOSE i \in ProductIndexes : products[i].url = r.url

C14_TiesKeepScrapeOrder ==
    pc = "returned"
        => \A a, b \in ResultIndexes :
               (/\ a < b
                /\ results[a].effective_price = results[b].effective_price
                /\ TitleMatches(results[a]) = TitleMatches(results[b]))
                   => IndexOf(results[a]) < IndexOf(results[b])

\* two listings with equal keys were priced and returned in input order
C14_Witness ==
    /\ pc = "returned"
    /\ Len(results) >= 2
    /\ results[1].effective_price = results[2].effective_price
    /\ TitleMatches(results[1]) = TitleMatches(results[2])
    /\ IndexOf(results[1]) < IndexOf(results[2])

(***************************************************************************)
(* C15: a price text with a currency sign, one numeric run and thousands   *)
(* separators parses to the number its digits spell once the sign and the  *)
(* separators are removed; "₹1,35,900.00" parses to 135900.00.             *)
(***************************************************************************)
\* the position of the decimal point of the text, Len(text) + 1 when it has none
PointAt(text) ==
    IF \E k \in 1..Len(text) : text[k] = "."
    THEN Min({k \in 1..Len(text) : text[k] = "."})
    ELSE Len(text) + 1

\* the currency sign, then one run of digits with separators in it and at
\* most one decimal point, which has a digit before it
OneRunPrice(text) ==
    /\ Len(text) >= 2
    /\ text[1] = Rupee
    /\ \A k \in 2..Len(text) : IsDigit(text[k]) \/ text[k] \in {",", "."}
    /\ Cardinality({k \in 1..Len(text) : text[k] = "."}) <= 1
    /\ \E k \in 2..(PointAt(text) - 1) : IsDigit(text[k])

\* the number the digits of such a text spell
SpelledValue(text) ==
    DigitsVal(Without(SubSeq(text, 2, PointAt(text) - 1), {","})) * Scale
    + FracVal(Without(SubSeq(text, PointAt(text) + 1, Len(text)), {","}))

C15_OneRunParsesToItsDigits ==
    pc = "parsed"
        => /\ OneRunPrice(price_str) => parsed = SomeF(SpelledValue(price_str))
           /\ price_str = PriceLakh => parsed = SomeF(135900 * Scale)

C15_Witness ==
    /\ pc = "parsed"
    /\ price_str = PriceLakh
    /\ OneRunPrice(price_str)
    /\ parsed = SomeF(135900 * Scale)

(***************************************************************************)
(* C16: the listings left out for want of a price are counted in a skipped *)
(* tally returned with the result: entries + skipped = input listings.     *)
(***************************************************************************)
C16_SkippedTallyReturned ==
    (pc = "returned" /\ Len(results) < Len(products))
        => /\ returned_skipped.some
           /\ Len(results) + returned_skipped.val = Len(products)

(***************************************************************************)
(* C17: every priced listing carries savings_percentage, equal to          *)
(* total_discount / original_price * 100, and 0 when original_price is 0;  *)
(* a listing priced at zero is still output.                               *)
(***************************************************************************)
\* total_discount / original_price * 100 of an entry, in hundredths of a
\* percent; 0 when original_price is 0
SavingsPercentage(r) ==
    IF r.original_price = 0 THEN 0
    ELSE ((DiscountOf(r) \div Scale) * 10000) \div (r.original_price \div Scale)

\* the listing's price is the number zero
ZeroPriced(p) ==
    /\ ~Truthy(p.original_price)
    /\ HasDigit(p.price)
    /\ parse_price(p.price) = SomeF(0)

C17_SavingsPercentage ==
    /\ \A k \in ResultIndexes :
           /\ "savings_percentage" \in DOMAIN results[k]
           /\ results[k].savings_percentage = SavingsPercentage(results[k])
    /\ pc = "returned" => \A i \in ProductIndexes : ZeroPriced(products[i]) => HasEntry(i)

ListingsReturned == pc \in {"details", "done", "no_listings"}

ListingUrls == {listings[i].url : i \in 1..Len(listings)}

\* the item has a title and a url the platform's code accepts
UsableItem(item, platform) ==
    /\ get_or_empty(item.title).kind = "text"
    /\ strip(get_or_empty(item.title).text) /= <<>>
    /\ get_or_empty(item.url).kind = "text"
    /\ resolve_url(item, platform).ok

\* C18: scrape_product_listings never holds, and so never returns, two
\* listings with the same URL, whatever items the platforms gave.
C18_ListingsUniqueByUrl ==
    \A i, j \in 1..Len(listings) : listings[i].url = listings[j].url => i = j

\* C18 witness: two usable items of a crawled platform resolve to the same
\* URL, the loop has gone past both, and the listings returned hold that URL.
C18_Witness ==
    /\ ListingsReturned
    /\ \E p \in PlatformIndexes :
           /\ crawled[p].kind = "ok"
           /\ \E a, b \in 1..Len(crawled[p].raw_data) :
                  /\ a < b
                  /\ UsableItem(crawled[p].raw_data[a], Platforms[p])
                  /\ UsableItem(crawled[p].raw_data[b], Platforms[p])
                  /\ resolve_url(crawled[p].raw_data[a], Platforms[p])
                         = resolve_url(crawled[p].raw_data[b], Platforms[p])
                  /\ resolve_url(crawled[p].raw_data[a], Platforms[p]).url \in ListingUrls

\* the number of listings of platform p
ListingsOf(p) ==
    Cardinality({i \in 1..Len(listings) : listings[i].platform = capitalize(Platforms[p].name)})

\* C19: partial-result tolerance.  When scrape_product_listings has returned,
\* every platform was attempted, whether or not an earlier one failed, and
\* every usable item of a platform whose crawl succeeded is among the listings
\* unless that platform reached max_products_per_platform; and every product
\* run_product_pipeline went through is kept in the order of the listings,
\* a failed detail fetch included, up to max_detail_pages of them at return.
C19_PartialResultTolerance ==
    /\ ListingsReturned =>
           /\ \A p \in PlatformIndexes : attempts[p] >= 1
           /\ \A p \in PlatformIndexes :
                  (crawled[p].kind = "ok" /\ ~crawled[p].aborted) =>
                      \/ ListingsOf(p) >= max_products_per_platform
                      \/ \A k \in 1..Len(crawled[p].raw_data) :
                             UsableItem(crawled[p].raw_data[k], Platforms[p]) =>
                                 resolve_url(crawled[p].raw_data[k], Platforms[p]).url
                                     \in ListingUrls
    /\ \A i \in 1..Len(detailed_products) :
           /\ i <= Len(listings)
           /\ detailed_products[i].listing_info = listings[i]
    /\ pc = "done" => Len(detailed_products) = Min({Len(listings), max_detail_pages})

\* C19 witness: the pipeline has returned after the crawl of the first
\* platform failed and the second gave listings, and a product whose detail
\* fetch failed is followed by another product.
C19_Witness ==
    /\ pc = "done"
    /\ crawled[1].kind \in CrawlFailures
    /\ crawled[2].kind = "ok"
    /\ listings /= <<>>
    /\ \E i \in 1..Len(detailed_products) :
           /\ detailed_products[i].detailed_info.kind = "error"
           /\ i < Len(detailed_products)

\* the errors of a detail fetch that another try could cure
TransientErrors == {ErrorNoData, ErrorException}

\* C20: a failed platform scrape and a failed detail fetch are retried before
\* they are given up: when the listings are returned every platform whose
\* crawl failed was attempted at least twice, and every product kept with a
\* transient error detail was fetched at least twice.
C20_RetriesBeforeGivingUp ==
    /\ ListingsReturned =>
           \A p \in PlatformIndexes :
               crawled[p].kind \in CrawlFailures => attempts[p] >= 2
    /\ \A i \in 1..Len(detailed_products) :
           (/\ detailed_products[i].detailed_info.kind = "error"
            /\ detailed_products[i].detailed_info.error \in TransientErrors)
               => fetches[i] >= 2

(***************************************************************************)
(* Claims about POST /analyze-prices                                       *)
(***************************************************************************)
\* analyze_prices has ended: it returned or an exception left it
HandlerEnded == pc \in {"responded", "raised"}

\* C21: the product data analyze_product_prices hands to the calculator is
\* the scraper's answer to the request: it is the data of the product_query
\* the engine was called with.
C21_PricedOverOwnListings ==
    engine_args.called => scraper_results.query = engine_args.product_query

\* C23: every call of analyze_prices ends in a PriceAnalysisResponse or in an
\* HTTPException of status 500 whose detail is an object with error, message,
\* timestamp and the request_id of the call; no other exception leaves it.
C23_ResponseOrHttp500 ==
    /\ pc = "responded" => response.kind = "PriceAnalysisResponse"
    /\ pc = "raised" =>
           /\ response.kind = "HTTPException"
           /\ response.status_code = 500
           /\ response.detail.type = "dict"
           /\ response.detail.keys = {"error", "message", "timestamp", "request_id"}
           /\ response.detail.request_id = request_id

\* C23 witness: a call whose try block raised something other than an
\* HTTPException (min() on None, len() of None, a validation error of the
\* response, an error of the model client) has ended.
C23_Witness ==
    /\ pc = "raised"
    /\ response.kind = "HTTPException"
    /\ response.detail.message \in {"TypeError", "ValidationError", "ClientError"}

\* C24: every request that passes validation carries at least one credit
\* card name and no blank one.
C24_AtLeastOneUsableCard ==
    validated.ok =>
        /\ Len(validated.value.user_credit_cards) >= 1
        /\ \A k \in 1..Len(validated.value.user_credit_cards) :
               NotBlank(validated.value.user_credit_cards[k])

\* the max_products_per_platform the request asks for: 5 when it names none
RequestedMaxProducts ==
    IF request.max_products_per_platform.kind = "int"
    THEN request.max_products_per_platform.val
    ELSE 5

\* C25: for every request that passes validation the engine is called with
\* max_products_per_platform between 1 and 10: the requested value, 5 when
\* none is given (the key absent or null), capped at 10.
C25_EngineMaxWithinOneToTen ==
    (validated.ok /\ HandlerEnded) =>
        /\ engine_args.called
        /\ engine_args.max_products_per_platform >= 1
        /\ engine_args.max_products_per_platform <= 10
        /\ engine_args.max_products_per_platform = Min({RequestedMaxProducts, 10})

\* the engine returned to analyze_prices
EngineReturned == engine_args.called /\ model_reply.kind /= "raises"

\* the reply is what the prompt asks for: a JSON array of objects, or an
\* object whose 'products' is one
WellFormedReply(reply) ==
    /\ reply.kind = "json"
    /\ \/ is_list_of_dicts(reply.value)
       \/ /\ reply.value.type = "dict"
          /\ "products" \in reply.value.keys
          /\ is_list_of_dicts(reply.value.products)

\* C26: analyze_product_prices returns a dict with a 'products' key for every
\* model reply (an array wrapped, an object with 'products' as it is, anything
\* else with an empty list), and a malformed reply ends as a successful
\* response with total_products = 0, never as an error.
C26_MalformedReplyIsEmptySuccess ==
    EngineReturned =>
        /\ is_valid_result(result)
        /\ (model_reply.kind = "json" /\ model_reply.value.type = "list")
               => result.products = model_reply.value
        /\ (model_reply.kind = "json" /\ is_valid_result(model_reply.value))
               => result = model_reply.value
        /\ (model_reply.kind = "invalid"
            \/ model_reply.value.type \notin {"list", "dict"}
            \/ (model_reply.value.type = "dict" /\ ~is_valid_result(model_reply.value)))
               => result.products = PyList(<<>>)
        /\ (HandlerEnded /\ ~WellFormedReply(model_reply)) =>
               /\ response.kind = "PriceAnalysisResponse"
               /\ response.total_products = 0

(***************************************************************************)
(* Claims about analyze_discounts_with_crewai                              *)
(***************************************************************************)
\* the analysis failed: an exception, or an empty or non-list result
CrewFailed ==
    \/ crew_result.kind \in {"raises", "empty", "invalid"}
    \/ crew_result.kind = "json" /\ crew_result.value.type /= "list"

\* the products calculate_discount_fallback prices
Priceable ==
    {k \in 1..Len(products) : product_step(products[k], user_credit_cards).kind = "append"}

\* C22: when the CrewAI analysis fails, the fallback calculation is run on the
\* same products: the caller receives an entry for every product the
\* fallback prices (where the fallback itself does not raise), not an empty
\* list.
C22_FallbackAfterCrewFailure ==
    (/\ pc = "crew_returned"
     /\ products /= <<>>
     /\ CrewFailed
     /\ \A k \in 1..Len(products) :
            product_step(products[k], user_credit_cards).kind /= "raise")
        => Len(results) = Cardinality(Priceable)

(***************************************************************************)
(* Claims about the limits of the scraping pipeline                        *)
(***************************************************************************)
\* the number of listings run_product_pipeline fetches the details of
DetailPages == Min({Len(listings), max_detail_pages})

\* C27: run_product_pipeline fetches the details of the first
\* min(len(listings), max_detail_pages) listings, in the order of the
\* listings, once each and of no other listing; the result counts the
\* products and the listings; with no listing it returns the error without
\* any fetch.
C27_DetailsOfFirstListings ==
    /\ pc = "done" =>
           /\ Len(final_result.products) = DetailPages
           /\ \A i \in 1..Len(listings) : fetches[i] = IF i <= DetailPages THEN 1 ELSE 0
           /\ \A i \in 1..DetailPages :
                  /\ final_result.products[i].listing_info = listings[i]
                  /\ final_result.products[i].detailed_info.url = listings[i].url
           /\ final_result.detailed_products_processed = Len(final_result.products)
           /\ final_result.total_listings_found = Len(listings)
           /\ final_result.error = <<>>
    /\ pc = "no_listings" =>
           /\ listings = <<>>
           /\ final_result.error = ErrorNoListings
           /\ fetches = <<>>
           /\ detailed_products = <<>>

\* C27 witness: the pipeline has returned with more listings than
\* max_detail_pages, the details of the first ones fetched.
C27_Witness ==
    /\ pc = "done"
    /\ Len(listings) > max_detail_pages
    /\ Len(detailed_products) = max_detail_pages
    /\ fetches[Len(listings)] = 0

\* C28: no platform has more than max_products_per_platform listings; while
\* a platform's items are gone through, count is the number of its
\* listings, so that skipped items use none of the limit; and a platform
\* gone through below the limit has a listing for every usable item.
C28_AtMostMaxPerPlatform ==
    /\ \A p \in 1..Len(crawled) : ListingsOf(p) <= max_products_per_platform
    /\ pc = "items" => count = ListingsOf(platform_idx)
    /\ \A p \in 1..Len(crawled) :
           (/\ p < platform_idx
            /\ crawled[p].kind = "ok"
            /\ ~crawled[p].aborted
            /\ ListingsOf(p) < max_products_per_platform)
               => \A k \in 1..Len(crawled[p].raw_data) :
                      UsableItem(crawled[p].raw_data[k], Platforms[p]) =>
                          resolve_url(crawled[p].raw_data[k], Platforms[p]).url
                              \in ListingUrls

\* C28 witness: a platform reached the limit after an item without a title
\* was skipped, and a usable item that came after the limit is not listed.
C28_Witness ==
    \E p \in 1..Len(crawled) :
        /\ p < platform_idx
        /\ crawled[p].kind = "ok"
        /\ ListingsOf(p) = max_products_per_platform
        /\ strip(get_or_empty(crawled[p].raw_data[1].title).text) = <<>>
        /\ \E k \in 1..Len(crawled[p].raw_data) :
               /\ UsableItem(crawled[p].raw_data[k], Platforms[p])
               /\ resolve_url(crawled[p].raw_data[k], Platforms[p]).url \notin ListingUrls

(***************************************************************************)
(* Claims about FirecrawlScrapingTool                                      *)
(***************************************************************************)
\* Firecrawl did not give the page: no client, no success, or the call raised
FirecrawlUnavailable ==
    \/ ~client
    \/ firecrawl_result.kind = "raises"
    \/ firecrawl_result.kind = "dict" /\ ~firecrawl_result.success

FetchEnded == pc \in {"returned", "raised"}

\* C30: fetch_product_listings does not raise; it returns an empty list when
\* the scraper output is an error object, is not JSON, is neither list nor
\* object, or is a list containing "error"; otherwise it returns at most
\* max_products listings, each with a non-empty title and an absolute url.
C30_EmptyListOrListings ==
    FetchEnded =>
        /\ pc = "returned"
        /\ is_rejected(parsed_data) => listings = <<>>
        /\ Len(listings) <= max_products
        /\ \A i \in 1..Len(listings) :
               /\ listings[i].title /= <<>>
               /\ StartsWith(listings[i].url, HttpPrefix)

====
